-------------------------- MODULE LiveInstallProofs --------------------------
(***************************************************************************)
(* What LiveInstall guarantees for every set of evidence documents and     *)
(* manifests, every mode and every number of faults.                       *)
(***************************************************************************)
EXTENDS LiveInstall, Sequences, FiniteSetTheorems, TLAPS

-----------------------------------------------------------------------------
(* Receipts *)

(* The stages are the numbers from 1 to 17, each name one of them.         *)
LEMMA StageNumbers ==
  /\ Stage = 1..17 /\ INSTALLATION_STAGES = 1..10
  /\ network_preflight = 1 /\ usb_ext4_entware_readiness = 2 /\ pinned_xray_bootstrap = 3
  /\ protected_profile_source = 4 /\ generate = 5 /\ strict_plan = 6 /\ backup = 7
  /\ install = 8 /\ healthcheck = 9 /\ autostart = 10 /\ native_proxy_component = 11
  /\ controlled_reboot = 12 /\ post_reboot_proof = 13
  /\ native_proxy_policy_transaction = 14 /\ protected_dns_gate = 15
  /\ selected_client_acceptance = 16 /\ final_result = 17
BY DEF Stage, INSTALLATION_STAGES, network_preflight, usb_ext4_entware_readiness,
   pinned_xray_bootstrap, protected_profile_source, generate, strict_plan, backup, install,
   healthcheck, autostart, native_proxy_component, controlled_reboot, post_reboot_proof,
   native_proxy_policy_transaction, protected_dns_gate, selected_client_acceptance, final_result

(* Marking stages gives them the epoch of the receipt and leaves the other *)
(* stages alone.                                                           *)
LEMMA MarkStagesFields ==
  ASSUME NEW r \in Receipt, NEW S \in SUBSET Stage, NEW status \in Status
  PROVE  /\ MarkStages(r, S, status) \in Receipt
         /\ \A s \in Stage : MarkStages(r, S, status).stages[s] =
              IF s \in S THEN [status |-> status, epoch |-> r.state_epoch] ELSE r.stages[s]
BY DEF MarkStages, Receipt, Epoch

(* The reset receipt is a receipt of the same epoch, with the stages from  *)
(* first on pending and nothing of the native transaction or the reboot    *)
(* decision left that belonged to them.                                    *)
LEMMA ResetFromFields ==
  ASSUME NEW r \in Receipt, NEW first \in Stage
  PROVE  /\ ResetFrom(r, first) \in Receipt
         /\ ResetFrom(r, first).state_epoch = r.state_epoch
         /\ \A s \in Stage : ResetFrom(r, first).stages[s] =
              IF s >= first THEN Pending ELSE r.stages[s]
         /\ ResetFrom(r, first).runtime_disposition =
              IF first <= autostart THEN "PENDING" ELSE r.runtime_disposition
         /\ ResetFrom(r, first).reboot_required =
              IF first <= native_proxy_component THEN "unknown" ELSE r.reboot_required
         /\ ResetFrom(r, first).native_transaction =
              IF first <= native_proxy_policy_transaction THEN EmptyNativeTransaction
              ELSE r.native_transaction
         /\ ResetFrom(r, first).endpoint_manifest =
              IF first <= generate THEN NoManifest ELSE r.endpoint_manifest
<1> DEFINE st == [s \in Stage |-> IF s >= first THEN Pending ELSE r.stages[s]]
           em == IF first <= generate THEN NoManifest ELSE r.endpoint_manifest
           rd == IF first <= autostart THEN "PENDING" ELSE r.runtime_disposition
           re == IF first <= autostart THEN FALSE ELSE r.runtime_evidence
           rr == IF first <= native_proxy_component THEN "unknown" ELSE r.reboot_required
           ce == IF first <= controlled_reboot THEN NoEpoch ELSE r.completed_reboot_epoch
           nt == IF first <= native_proxy_policy_transaction THEN EmptyNativeTransaction
                 ELSE r.native_transaction
           dg == IF first <= protected_dns_gate THEN "PENDING" ELSE r.dns_gate_status
           cut == [r EXCEPT !.stages = st, !.endpoint_manifest = em, !.runtime_disposition = rd,
                     !.runtime_evidence = re, !.reboot_required = rr,
                     !.completed_reboot_epoch = ce, !.native_transaction = nt,
                     !.dns_gate_status = dg]
<1>1. ResetFrom(r, first) = [cut EXCEPT !.final_verification = DerivedFinal(cut)]
  BY DEF ResetFrom
<1>2. DerivedFinal(cut) \in SUBSET FinalArea
  BY DEF DerivedFinal
<1>3. Pending \in [status : Status, epoch : Epoch]
  BY DEF Pending, Status, Epoch, NoEpoch
<1>4. EmptyNativeTransaction \in NativeTransaction
  BY DEF EmptyNativeTransaction, NativeTransaction, Epoch, NoEpoch
<1>5. st \in [Stage -> [status : Status, epoch : Epoch]]
  BY <1>3 DEF Receipt
<1>6. /\ em \in Manifest \cup {NoManifest} /\ rd \in Disposition /\ re \in BOOLEAN
      /\ rr \in {"unknown", "yes", "no"} /\ ce \in Epoch /\ nt \in NativeTransaction
      /\ dg \in {"PENDING", "PASS"}
  BY <1>4 DEF Receipt, Disposition, Epoch
<1>7. \A s \in Stage : st[s] = IF s >= first THEN Pending ELSE r.stages[s]
  OBVIOUS
<1>8. /\ rd = IF first <= autostart THEN "PENDING" ELSE r.runtime_disposition
      /\ rr = IF first <= native_proxy_component THEN "unknown" ELSE r.reboot_required
      /\ nt = IF first <= native_proxy_policy_transaction THEN EmptyNativeTransaction
              ELSE r.native_transaction
      /\ em = IF first <= generate THEN NoManifest ELSE r.endpoint_manifest
  OBVIOUS
<1> HIDE DEF st, em, rd, re, rr, ce, nt, dg
<1>9. cut \in Receipt
  BY <1>5, <1>6 DEF Receipt
<1>10. /\ cut.stages = st /\ cut.state_epoch = r.state_epoch
       /\ cut.runtime_disposition = rd /\ cut.reboot_required = rr
       /\ cut.native_transaction = nt /\ cut.endpoint_manifest = em
  BY DEF Receipt
<1> HIDE DEF cut
<1> QED BY <1>1, <1>2, <1>7, <1>8, <1>9, <1>10 DEF Receipt

-----------------------------------------------------------------------------
(* Recording results *)

(* q is r with the stages in S recorded in the epoch of r, none of the     *)
(* later ones done, and with what belongs to a done native or reboot stage *)
(* left alone.                                                             *)
Recording(r, q, S) ==
  /\ q.state_epoch = r.state_epoch /\ q.discovery = r.discovery
  /\ \A s \in Stage \ S : q.stages[s] = r.stages[s]
  /\ \A s \in S : q.stages[s].epoch = r.state_epoch
  /\ \A s \in S, t \in Stage \ S : s < t => ~StageDone(q, t)
  /\ \/ q.native_transaction = r.native_transaction
     \/ ~StageDone(r, native_proxy_policy_transaction)
  /\ protected_dns_gate \in S /\ q.native_transaction.write_required =>
       q.native_transaction.pre_epoch < r.state_epoch
  /\ \/ /\ controlled_reboot \notin S /\ post_reboot_proof \notin S
        /\ q.reboot_required = r.reboot_required \/ ~StageDone(r, controlled_reboot)
     \/ \A s \in {controlled_reboot, post_reboot_proof} :
          q.stages[s].status = IF q.reboot_required = "yes" THEN "PASS" ELSE "SKIPPED"

(* A recording that keeps the stages in order keeps a receipt sound.       *)
LEMMA RecordingSound ==
  ASSUME NEW r \in Receipt, NEW q \in Receipt, NEW S \in SUBSET Stage,
         Sound(r), Recording(r, q, S), InOrder(q)
  PROVE  Sound(q)
<1>1. \A s \in Stage \ S : StageDone(q, s) <=> StageDone(r, s)
  BY DEF Recording, StageDone
<1>2. /\ r.state_epoch \in Nat
      /\ \A s \in Stage : r.stages[s].epoch \in Int /\ q.stages[s].epoch \in Int
  BY DEF Receipt, Epoch, NoEpoch
<1>3. Dated(q)
  BY <1>1, <1>2 DEF Sound, Recording, Dated
<1>4. EpochsGrow(q)
  <2> SUFFICES ASSUME NEW s \in Stage, NEW t \in Stage, s <= t, StageDone(q, t)
               PROVE  q.stages[s].epoch <= q.stages[t].epoch
    BY DEF EpochsGrow
  <2>1. StageDone(q, s)
    BY StageNumbers DEF InOrder
  <2>2. CASE s \in S /\ t \notin S
    BY <1>2, <2>2, StageNumbers DEF Recording
  <2>3. CASE s \notin S /\ t \in S
    BY <1>1, <1>2, <2>1, <2>3 DEF Recording, Sound, Dated
  <2>4. CASE s \in S /\ t \in S
    BY <1>2, <2>4 DEF Recording
  <2>5. CASE s \notin S /\ t \notin S
    BY <1>1, <1>2, <2>5 DEF Recording, Sound, EpochsGrow
  <2> QED BY <2>2, <2>3, <2>4, <2>5
<1>5. Current(q)
  BY DEF Sound, Recording, Current
<1>6. Fresh(q)
  <2> SUFFICES ASSUME q.discovery # NoEvidence, NEW s \in Stage,
                      s >= FirstInvalidated(q.discovery), StageDone(q, s),
                      q.stages[s].epoch # q.state_epoch
               PROVE  /\ s = native_proxy_policy_transaction
                      /\ ExpectedRefresh(q, q.discovery)
    BY DEF Fresh
  <2>1. s \notin S /\ StageDone(r, s)
    BY <1>1 DEF Recording
  <2>2. s = native_proxy_policy_transaction /\ ExpectedRefresh(r, r.discovery)
    BY <2>1 DEF Sound, Fresh, Recording
  <2> QED BY <2>1, <2>2 DEF Recording, ExpectedRefresh
<1>7. DnsLate(q)
  <2> SUFFICES ASSUME StageDone(q, protected_dns_gate), q.native_transaction.write_required
               PROVE  q.stages[protected_dns_gate].epoch > q.native_transaction.pre_epoch
    BY DEF DnsLate
  <2>1. q.native_transaction.pre_epoch \in Int
    BY DEF Receipt, NativeTransaction, Epoch, NoEpoch
  <2>2. CASE protected_dns_gate \in S
    BY <1>2, <2>1, <2>2 DEF Recording
  <2>3. CASE protected_dns_gate \notin S
    <3>1. StageDone(r, protected_dns_gate)
      BY <1>1, <2>3, StageNumbers
    <3>2. StageDone(r, native_proxy_policy_transaction)
      BY <3>1, StageNumbers DEF Sound, InOrder
    <3> QED BY <2>3, <3>1, <3>2, StageNumbers DEF Recording, Sound, DnsLate
  <2> QED BY <2>2, <2>3
<1>8. Proven(q)
  <2>1. controlled_reboot \in Stage /\ post_reboot_proof \in Stage
    BY StageNumbers
  <2>2. CASE /\ controlled_reboot \notin S /\ post_reboot_proof \notin S
             /\ q.reboot_required = r.reboot_required \/ ~StageDone(r, controlled_reboot)
    BY <1>1, <2>1, <2>2 DEF Recording, Sound, Proven
  <2>3. CASE \A s \in {controlled_reboot, post_reboot_proof} :
               q.stages[s].status = IF q.reboot_required = "yes" THEN "PASS" ELSE "SKIPPED"
    BY <2>3 DEF Proven, StageDone
  <2> QED BY <2>2, <2>3 DEF Recording
<1> QED BY <1>3, <1>4, <1>5, <1>6, <1>7, <1>8 DEF Sound

(* A failure on record keeps a receipt sound.                              *)
LEMMA FailureSound ==
  ASSUME NEW r \in Receipt, Sound(r), NEW s \in Stage,
         s # controlled_reboot, s # post_reboot_proof, s # protected_dns_gate,
         InOrder(MarkStages(r, {s}, "FAIL"))
  PROVE  Sound(MarkStages(r, {s}, "FAIL"))
<1> DEFINE q == MarkStages(r, {s}, "FAIL")
<1>1. /\ q \in Receipt
      /\ \A t \in Stage : q.stages[t] =
           IF t \in {s} THEN [status |-> "FAIL", epoch |-> r.state_epoch] ELSE r.stages[t]
  <2>1. {s} \in SUBSET Stage /\ "FAIL" \in Status
    BY DEF Status
  <2> QED BY <2>1, MarkStagesFields
<1>2. ~StageDone(q, s)
  BY <1>1 DEF StageDone
<1>3. \A t \in Stage \ {s} : s < t => ~StageDone(q, t)
  BY <1>2 DEF InOrder
<1>4. /\ q.state_epoch = r.state_epoch /\ q.discovery = r.discovery
      /\ q.native_transaction = r.native_transaction /\ q.reboot_required = r.reboot_required
  BY DEF MarkStages, Receipt
<1> HIDE DEF q
<1>5. Recording(r, q, {s})
  BY <1>1, <1>3, <1>4 DEF Recording
<1> QED BY <1>1, <1>5, RecordingSound DEF q

-----------------------------------------------------------------------------
(* Accepting evidence *)

(* Accepting an acceptable document either changes nothing, or adopts a    *)
(* first document of the epoch, or moves to the next epoch and takes back  *)
(* every result from some stage on that the reported change invalidates.   *)
LEMMA AcceptedCut ==
  ASSUME NEW r \in Receipt, Sound(r), NEW ev \in Evidence, Acceptable(r, ev), ~Known(r, ev)
  PROVE  \E cut \in (1..18) \ {generate, strict_plan, post_reboot_proof} :
           LET q == Accepted(r, ev) IN
           /\ q \in Receipt
           /\ q.state_epoch = ev.epoch /\ q.discovery = ev
           /\ \A s \in Stage : q.stages[s] = IF s >= cut THEN Pending ELSE r.stages[s]
           /\ q.native_transaction =
                IF cut <= native_proxy_policy_transaction THEN EmptyNativeTransaction
                ELSE r.native_transaction
           /\ q.reboot_required = r.reboot_required \/ cut <= controlled_reboot
           /\ q.runtime_disposition = r.runtime_disposition \/ cut <= autostart
           /\ q.endpoint_manifest = r.endpoint_manifest \/ cut <= generate
           /\ \A s \in Stage : s >= FirstInvalidated(ev) /\ StageDone(q, s) =>
                s = native_proxy_policy_transaction /\ ExpectedRefresh(q, ev)
<1> DEFINE m == [r EXCEPT !.state_epoch = ev.epoch]
           q == Accepted(r, ev)
<1>1. ev.epoch \in Nat /\ ev.change \in StateChange
  BY EvidenceAssumption DEF EvidenceDocument
<1>2. /\ m \in Receipt /\ m.state_epoch = ev.epoch /\ m.stages = r.stages
      /\ m.native_transaction = r.native_transaction /\ m.reboot_required = r.reboot_required
      /\ m.runtime_disposition = r.runtime_disposition
      /\ m.endpoint_manifest = r.endpoint_manifest
  BY <1>1 DEF Receipt
<1>3. CASE ev.epoch = r.state_epoch /\ ev.change = "none"
  <2>1. q = [r EXCEPT !.discovery = ev]
    BY <1>3 DEF Accepted
  <2>2. /\ q \in Receipt /\ q.state_epoch = ev.epoch /\ q.discovery = ev
        /\ q.stages = r.stages /\ q.native_transaction = r.native_transaction
        /\ q.reboot_required = r.reboot_required
        /\ q.runtime_disposition = r.runtime_disposition
        /\ q.endpoint_manifest = r.endpoint_manifest
    BY <1>3, <2>1 DEF Receipt
  <2>3. FirstInvalidated(ev) = 18
    BY <1>3, StageNumbers DEF FirstInvalidated
  <2> HIDE DEF q
  <2> QED BY <2>2, <2>3, StageNumbers DEF q
<1>4. CASE ev.epoch = r.state_epoch + 1 /\ ev.change # "none"
  <2> DEFINE o == Reopen(m, ev)
  <2>1. q = [o EXCEPT !.discovery = ev]
    BY <1>4 DEF Accepted, Receipt
  <2> DEFINE CutAt(cut) ==
        /\ o \in Receipt /\ o.state_epoch = ev.epoch
        /\ \A s \in Stage : o.stages[s] = IF s >= cut THEN Pending ELSE m.stages[s]
        /\ o.native_transaction =
             IF cut <= native_proxy_policy_transaction THEN EmptyNativeTransaction
             ELSE m.native_transaction
        /\ o.reboot_required = m.reboot_required \/ cut <= controlled_reboot
        /\ o.runtime_disposition = m.runtime_disposition \/ cut <= autostart
        /\ o.endpoint_manifest = m.endpoint_manifest \/ cut <= generate
        /\ \A s \in Stage : s >= FirstInvalidated(ev) /\ StageDone(o, s) =>
             s = native_proxy_policy_transaction /\ ExpectedRefresh(o, ev)
  <2> SUFFICES \E cut \in (1..18) \ {generate, strict_plan, post_reboot_proof} : CutAt(cut)
    <3> HIDE DEF o, m
    <3>1. ASSUME o \in Receipt
          PROVE  /\ q \in Receipt /\ q.discovery = ev
                 /\ q.state_epoch = o.state_epoch /\ q.stages = o.stages
                 /\ q.native_transaction = o.native_transaction
                 /\ q.reboot_required = o.reboot_required
                 /\ q.runtime_disposition = o.runtime_disposition
                 /\ q.endpoint_manifest = o.endpoint_manifest
      BY <2>1, <3>1 DEF Receipt
    <3> HIDE DEF q
    <3> QED BY <1>2, <3>1 DEF q, StageDone, ExpectedRefresh
  <2> DEFINE first == FirstInvalidated(ev)
  <2>2. first \in Stage \ {generate, strict_plan, post_reboot_proof}
    BY <1>1, <1>4, StageNumbers DEF FirstInvalidated, StateChange
  <2>3. CASE o = ResetFrom(m, first)
    <3>1. \A s \in Stage : s >= first => ~StageDone(o, s)
      BY <1>2, <2>2, <2>3, ResetFromFields DEF StageDone, Pending
    <3> HIDE DEF o, m, first
    <3>2. CutAt(first)
      BY SMTT(60), <1>2, <2>2, <2>3, <3>1, ResetFromFields, StageNumbers DEF first
    <3> QED BY <2>2, <3>2, StageNumbers
  <2>4. CASE first = controlled_reboot /\ o = [ResetFrom(m, first) EXCEPT !.reboot_required = "yes"]
    <3> DEFINE c == ResetFrom(m, first)
    <3>1. /\ c \in Receipt /\ c.state_epoch = m.state_epoch
          /\ c.runtime_disposition = m.runtime_disposition \/ first <= autostart
          /\ c.endpoint_manifest = m.endpoint_manifest \/ first <= generate
          /\ \A s \in Stage : c.stages[s] = IF s >= first THEN Pending ELSE m.stages[s]
          /\ c.native_transaction =
               IF first <= native_proxy_policy_transaction THEN EmptyNativeTransaction
               ELSE m.native_transaction
      BY <1>2, <2>2, ResetFromFields
    <3> HIDE DEF c
    <3>2. /\ o \in Receipt /\ o.state_epoch = c.state_epoch /\ o.stages = c.stages
          /\ o.native_transaction = c.native_transaction
          /\ o.runtime_disposition = c.runtime_disposition
          /\ o.endpoint_manifest = c.endpoint_manifest
      BY <2>4, <3>1 DEF c, Receipt
    <3> HIDE DEF o, m, first
    <3>3. \A s \in Stage : s >= first => ~StageDone(o, s)
      BY <3>1, <3>2 DEF StageDone, Pending
    <3>4. CutAt(first)
      BY <1>2, <2>2, <2>4, <3>1, <3>2, <3>3, StageNumbers DEF first
    <3> QED BY <2>2, <3>4, StageNumbers
  <2>5. CASE o = m /\ ~StageDone(m, first)
    <3>1. \A s \in Stage : s >= first => ~StageDone(r, s)
      <4>1. ~StageDone(r, first)
        BY <1>2, <2>5 DEF StageDone
      <4> HIDE DEF first
      <4> QED BY <2>2, <4>1, StageNumbers DEF Sound, InOrder
    <3>2. \A s \in Stage : s >= first => ~StageDone(m, s)
      BY <1>2, <3>1 DEF StageDone
    <3> HIDE DEF first, m
    <3>3. CutAt(18)
      BY <1>2, <2>5, <3>2, StageNumbers DEF first
    <3> QED BY <3>3, StageNumbers
  <2>6. CASE o = m /\ first = native_proxy_policy_transaction /\ ExpectedRefresh(m, ev)
    <3>1. r.native_transaction.write_required /\ r.native_transaction.pre_epoch = r.state_epoch
      BY <1>1, <1>2, <1>4, <2>6 DEF ExpectedRefresh, Receipt, NativeTransaction, Epoch, NoEpoch
    <3>2. ~StageDone(r, protected_dns_gate)
      BY <3>1, StageNumbers DEF Sound, DnsLate, Dated, Receipt, Epoch, NoEpoch
    <3>3. \A s \in Stage : s >= protected_dns_gate => ~StageDone(r, s)
      BY <3>2, StageNumbers DEF Sound, InOrder
    <3>4. \A s \in Stage : s >= protected_dns_gate => ~StageDone(m, s)
      BY <1>2, <3>3 DEF StageDone
    <3> HIDE DEF first, m
    <3>5. CutAt(18)
      BY <1>2, <2>6, <3>4, StageNumbers DEF first
    <3> QED BY <3>5, StageNumbers
  <2>7. \/ o = ResetFrom(m, first)
        \/ first = controlled_reboot /\ o = [ResetFrom(m, first) EXCEPT !.reboot_required = "yes"]
        \/ o = m /\ ~StageDone(m, first)
        \/ o = m /\ first = native_proxy_policy_transaction /\ ExpectedRefresh(m, ev)
    BY <1>1, <1>4 DEF Reopen, FirstInvalidated, StateChange
  <2> QED BY <2>3, <2>4, <2>5, <2>6, <2>7
<1> QED BY <1>3, <1>4 DEF Acceptable

(* Accepting evidence keeps a receipt sound, and what was accepted is the  *)
(* discovery of the receipt, in its own epoch.                             *)
LEMMA AcceptedSound ==
  ASSUME NEW r \in Receipt, Sound(r), NEW ev \in Evidence, Acceptable(r, ev)
  PROVE  /\ Accepted(r, ev) \in Receipt /\ Sound(Accepted(r, ev))
         /\ Accepted(r, ev).discovery = ev /\ Accepted(r, ev).state_epoch = ev.epoch
<1>1. CASE Known(r, ev)
  BY <1>1, EvidenceAssumption DEF Known, Acceptable, Accepted, Sound, Current
<1>2. CASE ~Known(r, ev)
  <2> DEFINE q == Accepted(r, ev)
  <2>1. PICK cut \in (1..18) \ {generate, strict_plan, post_reboot_proof} :
           /\ q \in Receipt
           /\ q.state_epoch = ev.epoch /\ q.discovery = ev
           /\ \A s \in Stage : q.stages[s] = IF s >= cut THEN Pending ELSE r.stages[s]
           /\ q.native_transaction =
                IF cut <= native_proxy_policy_transaction THEN EmptyNativeTransaction
                ELSE r.native_transaction
           /\ q.reboot_required = r.reboot_required \/ cut <= controlled_reboot
           /\ q.runtime_disposition = r.runtime_disposition \/ cut <= autostart
           /\ \A s \in Stage : s >= FirstInvalidated(ev) /\ StageDone(q, s) =>
                s = native_proxy_policy_transaction /\ ExpectedRefresh(q, ev)
    BY <1>2, AcceptedCut
  <2>2. r.state_epoch \in Nat /\ ev.epoch \in Nat /\ r.state_epoch <= ev.epoch
    BY <1>2, EvidenceAssumption DEF Acceptable, Receipt, EvidenceDocument
  <2> HIDE DEF q
  <2>3. /\ \A s \in Stage : StageDone(q, s) <=> s < cut /\ StageDone(r, s)
        /\ \A s \in Stage : StageDone(q, s) => q.stages[s] = r.stages[s]
    BY <2>1, StageNumbers DEF StageDone, Pending
  <2>4. \A s \in Stage : r.stages[s].epoch \in Int
    BY DEF Receipt, Epoch, NoEpoch
  <2>5. InOrder(q)
    BY <2>3, StageNumbers DEF Sound, InOrder
  <2>6. Dated(q)
    BY <2>1, <2>2, <2>3, <2>4 DEF Sound, Dated
  <2>7. EpochsGrow(q)
    <3> SUFFICES ASSUME NEW s \in Stage, NEW t \in Stage, s <= t, StageDone(q, t)
                 PROVE  q.stages[s].epoch <= q.stages[t].epoch
      BY DEF EpochsGrow
    <3>1. StageDone(q, s)
      BY <2>5, StageNumbers DEF InOrder
    <3> QED BY <2>3, <3>1 DEF Sound, EpochsGrow
  <2>8. Current(q)
    BY <2>1, EvidenceAssumption DEF Current
  <2>9. Fresh(q)
    BY <2>1 DEF Fresh
  <2>10. DnsLate(q)
    <3> SUFFICES ASSUME StageDone(q, protected_dns_gate), q.native_transaction.write_required
                 PROVE  q.stages[protected_dns_gate].epoch > q.native_transaction.pre_epoch
      BY DEF DnsLate
    <3>1. protected_dns_gate < cut
      BY <2>3, StageNumbers
    <3>2. q.native_transaction = r.native_transaction
      BY <2>1, <3>1, StageNumbers
    <3> QED BY <2>3, <3>2, StageNumbers DEF Sound, DnsLate
  <2>11. Proven(q)
    <3>1. StageDone(q, controlled_reboot) <=> StageDone(q, post_reboot_proof)
      <4>1. cut # post_reboot_proof
        BY <2>1
      <4> QED BY <2>3, <4>1, StageNumbers DEF Sound, Proven
    <3> QED BY <2>1, <2>3, <3>1, StageNumbers DEF Sound, Proven
  <2> QED BY <2>1, <2>5, <2>6, <2>7, <2>8, <2>9, <2>10, <2>11 DEF Sound, q
<1> QED BY <1>1, <1>2

-----------------------------------------------------------------------------
(* How runs end and go on *)

(* The part of the type invariant about the world outside the process.     *)
WorldTyped ==
  /\ manifest \in Manifest \cup {NoManifest}
  /\ packet \in Packet \cup {NoPacket}
  /\ router \in [running : Manifest \cup {NoManifest}, startup : Manifest \cup {NoManifest}]
  /\ ran \in [Owner -> Epoch]
  /\ faults \in Nat

Late == {"inspect", "reboot", "native", "dns", "client", "final"}

(* Where a run has loaded the endpoint manifest.                           *)
Located == Label \ {"idle", "preflight", "bootstrap", "setup", "runtime"}

(* A running process holds a sound receipt and there is one on disk.       *)
LEMMA RunHoldsReceipt ==
  ASSUME Inductive, pc # "idle"
  PROVE  /\ mem \in Receipt /\ Sound(mem)
         /\ disk \in Receipt /\ Sound(disk) /\ Writable(disk)
         /\ run \in Run /\ WorldTyped
         /\ pc \notin {"preflight", "component"} => mem = disk
         /\ result = "none" /\ pc # "component" => mem = disk
         /\ ~Evident => mem = disk
         /\ pc \in Located => manifest # NoManifest
<1>1. /\ mem \in Receipt /\ disk \in Receipt /\ Sound(disk) /\ Writable(disk)
      /\ run \in Run /\ WorldTyped
  BY DEF Inductive, TypeOK, WorldTyped
<1>2. mem # NoReceipt
  BY <1>1, ModeAssumption
<1>3. pc \in Located => manifest # NoManifest
  BY DEF Inductive, Located
<1>4. CASE mem = disk
  BY <1>1, <1>3, <1>4
<1>5. CASE /\ Evident /\ Acceptable(disk, run.evidence)
           /\ mem = Accepted(disk, run.evidence)
           /\ pc = "component" \/ (pc = "preflight" /\ result # "none")
  <2>1. run.evidence \in Evidence
    BY <1>1, <1>5 DEF Run, Evident
  <2> QED BY <1>1, <1>3, <1>5, <2>1, AcceptedSound
<1> QED BY <1>2, <1>4, <1>5 DEF Inductive, InStep

(* The end of a run, with or without a sound receipt written at it, keeps  *)
(* the inductive invariant.                                                *)
LEMMA StopKeeps ==
  ASSUME Inductive, pc # "idle", NEW why \in Outcome, Stop(why), WorldTyped',
         disk' = disk \/ (disk' \in Receipt /\ Sound(disk') /\ Writable(disk'))
  PROVE  Inductive'
<1>1. NoRun \in Run
  BY DEF NoRun, Run, Snapshot
<1>2. TypeOK'
  BY <1>1 DEF Inductive, TypeOK, Stop, WorldTyped, Label, Result
<1>3. (disk # NoReceipt => Sound(disk) /\ Writable(disk))'
  BY DEF Inductive
<1> QED BY <1>2, <1>3, ModeAssumption DEF Inductive, TypeOK, Stop, InStep, Owner

(* A handoff or a recorded failure, whose receipt write_receipt may refuse,*)
(* keeps the inductive invariant.                                          *)
LEMMA WriteAndStopKeeps ==
  ASSUME Inductive, pc # "idle", NEW r \in Receipt, NEW why \in Outcome, InOrder(r) => Sound(r),
         WriteAndStop(r, why), WorldTyped'
  PROVE  Inductive'
<1>1. "refused" \in Outcome
  BY DEF Outcome
<1>2. Writable(r) => Sound(r)
  BY DEF Writable, Valid
<1> DEFINE ended == IF Writable(r) THEN why ELSE "refused"
<1>3. ended \in Outcome /\ Stop(ended)
  BY <1>1 DEF WriteAndStop
<1>4. disk' = disk \/ (disk' \in Receipt /\ Sound(disk') /\ Writable(disk'))
  <2>1. CASE Writable(r)
    <3>1. disk' = r
      BY <2>1 DEF WriteAndStop
    <3> QED BY <1>2, <2>1, <3>1 DEF Writable
  <2>2. CASE ~Writable(r)
    BY <2>2 DEF WriteAndStop
  <2> QED BY <2>1, <2>2
<1> HIDE DEF ended
<1> QED BY <1>3, <1>4, StopKeeps

(* A write in the middle of a run keeps the inductive invariant, whether   *)
(* write_receipt accepts or refuses it.                                    *)
LEMMA WriteThenKeeps ==
  ASSUME Inductive, pc # "idle", NEW r \in Receipt, NEW next \in Label \ {"idle", "runtime"},
         InOrder(r) => Sound(r), next \in Late /\ Evident => r.discovery = run.evidence,
         next \in Located => manifest' # NoManifest,
         WriteThen(r, next), WorldTyped'
  PROVE  Inductive'
<1>1. CASE Writable(r)
  <2>1. disk' = r /\ mem' = r /\ pc' = next /\ result' = "none" /\ UNCHANGED <<run, outcome>>
    BY <1>1 DEF WriteThen
  <2>2. Sound(r)
    BY <1>1 DEF Writable, Valid
  <2>3. TypeOK'
    BY <2>1, ModeAssumption DEF Inductive, TypeOK, WorldTyped, Result
  <2>4. Sound(disk)' /\ Writable(disk)'
    BY <1>1, <2>1, <2>2
  <2> QED BY <2>1, <2>3, <2>4, ModeAssumption DEF Inductive, InStep, Late, Located, Evident
<1>2. CASE ~Writable(r)
  BY <1>2, StopKeeps DEF WriteThen, Outcome
<1> QED BY <1>1, <1>2

(* Passing a stage by keeps the inductive invariant.                       *)
LEMMA GoOnKeeps ==
  ASSUME Inductive, pc # "idle", mem = disk,
         NEW next \in Label \ {"idle", "runtime"}, next \in Owner => result = "none",
         next \in Late /\ Evident => mem.discovery = run.evidence,
         next \in Located => manifest' # NoManifest,
         GoOn(next), WorldTyped', UNCHANGED packet
  PROVE  Inductive'
<1>1. TypeOK'
  BY DEF Inductive, TypeOK, WorldTyped, GoOn
<1>2. (disk # NoReceipt => Sound(disk) /\ Writable(disk))'
  <2>1. Sound(disk)' = Sound(disk) /\ Writable(disk)' = Writable(disk)
    BY DEF GoOn
  <2> QED BY <2>1 DEF Inductive, GoOn
<1> QED BY <1>1, <1>2 DEF Inductive, InStep, Late, Located, Evident, Owner, GoOn

-----------------------------------------------------------------------------
(* Local installation *)

(* The stages of an owner lie next to each other, so that an open one      *)
(* leaves every stage after them open.                                     *)
LEMMA OwnerStages ==
  ASSUME NEW o \in Owner
  PROVE  /\ Recorded[o] \in SUBSET INSTALLATION_STAGES /\ Recorded[o] \in SUBSET Stage
         /\ Gate(o) \in Recorded[o] /\ \A s \in Recorded[o] : s <= Gate(o)
         /\ FailedStage(o) \in Recorded[o]
         /\ \A s \in Recorded[o], t \in Stage \ Recorded[o] :
              s < t => \A u \in Recorded[o] : u < t
         /\ After[o] \in Label \ {"idle", "runtime"} /\ After[o] \notin Late
         /\ o \in Label /\ o \notin Late
         /\ After[o] \in Located => o = "setup" \/ o \in Located
         /\ o = "setup" => strict_plan \in Recorded[o]
<1>1. Recorded[o] = IF o = "preflight" THEN {1, 2} ELSE IF o = "bootstrap" THEN {3}
                    ELSE IF o = "setup" THEN {4, 5, 6} ELSE IF o = "backup" THEN {7}
                    ELSE IF o = "install" THEN {8} ELSE IF o = "healthcheck" THEN {9} ELSE {10}
  BY StageNumbers DEF Recorded
<1>2. \E s \in Recorded[o] : \A t \in Recorded[o] : t <= s
  BY <1>1
<1>3. \E s \in Recorded[o] : \A t \in Recorded[o] : s <= t
  BY <1>1
<1>4. Gate(o) \in Recorded[o] /\ \A s \in Recorded[o] : s <= Gate(o)
  BY <1>2 DEF Gate
<1>5. FailedStage(o) \in Recorded[o]
  BY <1>3 DEF FailedStage
<1>6. /\ After[o] \in Label \ {"idle", "runtime"} /\ After[o] \notin Late
      /\ o \in Label /\ o \notin Late
      /\ After[o] \in Located => o = "setup" \/ o \in Located
  BY DEF After, Label, Owner, Late, Located
<1> QED BY <1>1, <1>4, <1>5, <1>6, StageNumbers

(* Recording a success of an owner whose stages are open.                  *)
LEMMA OwnerRecordSound ==
  ASSUME NEW r \in Receipt, Sound(r), NEW o \in Owner, ~AllDone(r, Recorded[o]),
         NEW q \in Receipt, InOrder(q), q.stages = MarkStages(r, Recorded[o], "PASS").stages,
         q.state_epoch = r.state_epoch, q.discovery = r.discovery,
         q.native_transaction = r.native_transaction, q.reboot_required = r.reboot_required
  PROVE  Sound(q)
<1> DEFINE S == Recorded[o]
<1>1. S \in SUBSET Stage /\ "PASS" \in Status
  BY OwnerStages DEF Status
<1>2. \A s \in Stage : q.stages[s] =
        IF s \in S THEN [status |-> "PASS", epoch |-> r.state_epoch] ELSE r.stages[s]
  BY <1>1, MarkStagesFields
<1>3. PICK u \in S : ~StageDone(r, u)
  BY DEF AllDone
<1>4. \A s \in S, t \in Stage \ S : s < t => ~StageDone(q, t)
  <2> SUFFICES ASSUME NEW s \in S, NEW t \in Stage \ S, s < t
               PROVE  ~StageDone(q, t)
    OBVIOUS
  <2>1. u < t
    BY OwnerStages
  <2>2. ~StageDone(r, t)
    BY <1>1, <1>3, <2>1 DEF Sound, InOrder
  <2> QED BY <1>2, <2>2 DEF StageDone
<1>5. controlled_reboot \notin S /\ post_reboot_proof \notin S /\ protected_dns_gate \notin S
  BY OwnerStages, StageNumbers
<1> HIDE DEF S
<1>6. Recording(r, q, S)
  BY <1>1, <1>2, <1>4, <1>5 DEF Recording
<1> QED BY <1>1, <1>6, RecordingSound

(* The preflight steps keep the inductive invariant: the evidence that     *)
(* preflight.sh runs on is accepted in memory one step before the write.   *)
LEMMA PreflightKeeps ==
  ASSUME Inductive,
         PassPreflight \/ PreflightHandoff \/ PreflightEvidence \/ RunPreflight \/ RecordPreflight
  PROVE  Inductive'
<1>1. /\ pc = "preflight"
      /\ mem \in Receipt /\ Sound(mem) /\ disk \in Receipt /\ run \in Run /\ WorldTyped
      /\ result = "none" => mem = disk
  BY RunHoldsReceipt DEF PassPreflight, PreflightHandoff, PreflightEvidence, RunPreflight,
     RecordPreflight, PreflightNeeded
<1>2. "preflight" \in Owner /\ Recorded["preflight"] \in SUBSET Stage
  BY OwnerStages DEF Owner
<1>3. /\ ReadinessStage \in Stage /\ ReadinessStage # controlled_reboot
      /\ ReadinessStage # post_reboot_proof /\ ReadinessStage # protected_dns_gate
  BY StageNumbers DEF ReadinessStage
<1>4. Quiet => WorldTyped' /\ manifest' = manifest /\ packet' = packet
  BY <1>1 DEF Quiet, world, WorldTyped
<1>5. Evident => run.evidence \in Evidence
  BY <1>1 DEF Run, Evident
<1>6. CASE PassPreflight
  BY <1>1, <1>4, <1>6, GoOnKeeps DEF PassPreflight, Label, Owner, Late, Located
<1>7. CASE PreflightHandoff
  BY <1>1, <1>4, <1>7, WriteAndStopKeeps
     DEF PreflightHandoff, PreflightNeeded, Handoff, Outcome, Handoffs
<1>8. CASE PreflightEvidence
  <2>1. CASE Error
    BY <1>1, <1>4, <1>8, <2>1, StopKeeps DEF PreflightEvidence, Error, Outcome
  <2>2. CASE /\ Acceptable(mem, run.evidence)
             /\ WriteAndStop(Accepted(mem, run.evidence), "NETWORK_OR_STORAGE_READINESS_REQUIRED")
    <3>1. /\ Accepted(mem, run.evidence) \in Receipt /\ Sound(Accepted(mem, run.evidence))
      BY <1>1, <1>5, <1>8, <2>2, AcceptedSound DEF PreflightEvidence
    <3> QED BY <1>1, <1>4, <1>8, <2>2, <3>1, WriteAndStopKeeps
            DEF PreflightEvidence, Outcome, Handoffs
  <2> QED BY <1>8, <2>1, <2>2 DEF PreflightEvidence
<1>9. CASE RunPreflight
  <2>1. /\ mem = disk /\ Evident /\ run.evidence \in Evidence
        /\ Acceptable(disk, run.evidence) /\ mem' = Accepted(disk, run.evidence)
        /\ result' \in {"ok", "fail"} /\ pc' = pc /\ disk' = disk /\ run' = run
        /\ outcome' = outcome
    BY <1>1, <1>5, <1>9 DEF RunPreflight, PreflightNeeded
  <2>2. mem' \in Receipt /\ Sound(mem') /\ mem'.state_epoch \in Nat
    BY <1>1, <2>1, AcceptedSound DEF Receipt
  <2>3. WorldTyped'
    BY <1>1, <1>9, <2>2, ModeAssumption
       DEF RunPreflight, WorldTyped, Calm, Fault, Epoch
  <2>4. ~AllDone(mem, Recorded["preflight"])'
    <3>1. PICK u \in Recorded["preflight"] : ~StageDone(disk, u)
      BY <1>9, <2>1 DEF RunPreflight, PreflightNeeded, AllDone
    <3>2. ~StageDone(mem', u)
      <4>1. CASE Known(disk, run.evidence)
        BY <2>1, <3>1, <4>1 DEF Accepted
      <4>2. CASE ~Known(disk, run.evidence)
        <5>1. mem'.stages[u] = disk.stages[u] \/ mem'.stages[u] = Pending
          BY <1>1, <1>2, <2>1, <4>2, AcceptedCut
        <5> QED BY <3>1, <5>1 DEF StageDone, Pending
      <4> QED BY <4>1, <4>2
    <3> QED BY <3>1, <3>2 DEF AllDone
  <2>5. TypeOK'
    BY <1>1, <2>1, <2>2, <2>3, ModeAssumption DEF Inductive, TypeOK, WorldTyped, Result
  <2>6. (disk # NoReceipt => Sound(disk) /\ Writable(disk))'
    BY <2>1 DEF Inductive
  <2> QED BY <1>1, <2>1, <2>4, <2>5, <2>6 DEF Inductive, InStep, Evident
<1>10. CASE RecordPreflight
  <2>1. CASE result = "ok"
    <3> DEFINE q == MarkStages(mem, Recorded["preflight"], "PASS")
    <3>1. q \in Receipt
      BY <1>1, <1>2, MarkStagesFields DEF Status
    <3>2. /\ q.state_epoch = mem.state_epoch /\ q.discovery = mem.discovery
          /\ q.native_transaction = mem.native_transaction
          /\ q.reboot_required = mem.reboot_required
      BY <1>1 DEF MarkStages, Receipt
    <3>3. ~AllDone(mem, Recorded["preflight"])
      BY <1>1, <1>2, <2>1 DEF Inductive
    <3>4. InOrder(q) => Sound(q)
      BY <1>1, <1>2, <3>1, <3>2, <3>3, OwnerRecordSound
    <3>5. WriteThen(q, "bootstrap")
      BY <1>10, <2>1 DEF RecordPreflight
    <3> HIDE DEF q
    <3> QED BY <1>1, <1>4, <1>10, <3>1, <3>4, <3>5, WriteThenKeeps
            DEF RecordPreflight, Label, Owner, Late, Located
  <2>2. CASE result = "fail"
    <3>1. {ReadinessStage} \in SUBSET Stage /\ "FAIL" \in Status
      BY <1>3 DEF Status
    <3>2. MarkStages(mem, {ReadinessStage}, "FAIL") \in Receipt
      BY <1>1, <3>1, MarkStagesFields
    <3> QED BY <1>1, <1>3, <1>4, <1>10, <2>2, <3>2, FailureSound, WriteAndStopKeeps
            DEF RecordPreflight, Fail, Outcome
  <2> QED BY <1>10, <2>1, <2>2 DEF RecordPreflight
<1> QED BY <1>6, <1>7, <1>8, <1>9, <1>10

(* The steps of the other local owners keep the inductive invariant.       *)
LEMMA OwnerKeeps ==
  ASSUME Inductive, NEW o \in Owner \ {"preflight"},
         PassOwner(o) \/ RunOwner(o) \/ RecordOwner(o)
  PROVE  Inductive'
<1>1. pc = o /\ pc # "idle" /\ pc # "component" /\ pc # "preflight"
  BY DEF PassOwner, RunOwner, RecordOwner, Owner
<1>2. /\ mem \in Receipt /\ Sound(mem) /\ disk \in Receipt /\ mem = disk
      /\ run \in Run /\ WorldTyped /\ Writable(mem)
      /\ pc \in Located => manifest # NoManifest
  BY <1>1, RunHoldsReceipt
<1>3. /\ Recorded[o] \in SUBSET Stage /\ Gate(o) \in Recorded[o] /\ FailedStage(o) \in Recorded[o]
      /\ After[o] \in Label \ {"idle", "runtime"} /\ After[o] \notin Late
      /\ controlled_reboot \notin Recorded[o] /\ post_reboot_proof \notin Recorded[o]
      /\ protected_dns_gate \notin Recorded[o]
  BY OwnerStages, StageNumbers
<1>4. Quiet => WorldTyped' /\ manifest' = manifest /\ packet' = packet
  BY <1>2 DEF Quiet, world, WorldTyped
<1>5. CASE PassOwner(o)
  <2>1. CASE Error
    BY <1>1, <1>4, <1>5, <2>1, StopKeeps DEF PassOwner, Error, Outcome
  <2>2. CASE (o = "setup" => manifest = mem.endpoint_manifest) /\ GoOn(After[o])
    <3>1. ASSUME o = "setup"
          PROVE  manifest # NoManifest
      <4>1. StageDone(mem, strict_plan)
        <5>1. strict_plan \in Stage /\ Gate(o) \in Stage /\ strict_plan <= Gate(o)
          BY <1>3, <3>1, OwnerStages
        <5>2. StageDone(mem, Gate(o))
          BY <1>5 DEF PassOwner
        <5> QED BY <1>2, <5>1, <5>2, StageNumbers DEF Sound, InOrder
      <4> QED BY <1>2, <2>2, <3>1, <4>1 DEF Writable, Valid
    <3> QED BY <1>1, <1>2, <1>3, <1>4, <1>5, <2>2, <3>1, OwnerStages, GoOnKeeps DEF PassOwner
  <2> QED BY <1>5, <2>1, <2>2 DEF PassOwner
<1>6. CASE RunOwner(o)
  <2>1. /\ ~AllDone(mem, Recorded[o])
        /\ result' \in {"ok", "fail"} /\ UNCHANGED <<disk, mem, pc, run, outcome>>
    BY <1>3, <1>6 DEF RunOwner, AllDone
  <2>2. WorldTyped'
    <3>1. mem.state_epoch \in Epoch /\ faults \in Nat
      BY <1>2 DEF Receipt, Epoch, WorldTyped
    <3>2. faults' \in Nat
      BY <1>6, <3>1, ModeAssumption DEF RunOwner, Calm, Fault
    <3>3. ran' \in [Owner -> Epoch]
      BY <1>2, <1>6, <3>1 DEF RunOwner, WorldTyped
    <3>4. manifest' \in Manifest \cup {NoManifest}
      BY <1>2, <1>6 DEF RunOwner, WorldTyped
    <3> QED BY <1>2, <1>6, <3>2, <3>3, <3>4 DEF RunOwner, WorldTyped
  <2>3. TypeOK'
    BY <2>1, <2>2 DEF Inductive, TypeOK, WorldTyped, Result
  <2>4. (disk # NoReceipt => Sound(disk) /\ Writable(disk))'
    BY <2>1 DEF Inductive
  <2>5. ~AllDone(mem, Recorded[pc])'
    BY <1>1, <2>1
  <2>6. /\ pc' \in Located => manifest' # NoManifest
        /\ pc' = "setup" /\ result' = "ok" => manifest' # NoManifest
    BY <1>1, <1>2, <1>6, <2>1, EvidenceAssumption DEF RunOwner, Located
  <2> QED BY <1>1, <1>2, <2>1, <2>3, <2>4, <2>5, <2>6
          DEF Inductive, InStep, Evident, Owner, Located
<1>7. CASE RecordOwner(o)
  <2>1. CASE result = "ok"
    <3> DEFINE done == MarkStages(mem, Recorded[o], "PASS")
               q == OwnerReceipt(o)
    <3>1. done \in Receipt
      BY <1>2, <1>3, MarkStagesFields DEF Status
    <3>2. /\ done.state_epoch = mem.state_epoch /\ done.discovery = mem.discovery
          /\ done.native_transaction = mem.native_transaction
          /\ done.reboot_required = mem.reboot_required
      BY <1>2 DEF MarkStages, Receipt
    <3> HIDE DEF done
    <3>3. /\ q \in Receipt /\ q.stages = done.stages /\ q.state_epoch = done.state_epoch
          /\ q.discovery = done.discovery /\ q.native_transaction = done.native_transaction
          /\ q.reboot_required = done.reboot_required
      <4>1. manifest \in Manifest \cup {NoManifest}
        BY <1>2 DEF WorldTyped
      <4>2. q = CASE o = "setup"       -> [done EXCEPT !.endpoint_manifest = manifest]
                  [] o = "healthcheck" -> Verified(done, {"xray"})
                  [] o = "autostart"   ->
                       Verified([done EXCEPT !.runtime_disposition = "EXECUTED"],
                                {"installation", "autostart"})
                  [] OTHER             -> done
        BY DEF OwnerReceipt, done
      <4> HIDE DEF q
      <4>3. CASE o = "setup"
        BY <3>1, <4>1, <4>2, <4>3 DEF Receipt
      <4>4. CASE o = "healthcheck"
        BY <3>1, <4>2, <4>4 DEF Verified, Receipt, FinalArea
      <4>5. CASE o = "autostart"
        BY <3>1, <4>2, <4>5 DEF Verified, Receipt, FinalArea, Disposition
      <4>6. CASE o \notin {"setup", "healthcheck", "autostart"}
        BY <3>1, <4>2, <4>6
      <4> QED BY <4>3, <4>4, <4>5, <4>6
    <3>4. ~AllDone(mem, Recorded[o])
      BY <1>1, <2>1 DEF Inductive
    <3> HIDE DEF q
    <3>5. InOrder(q) => Sound(q)
      BY <1>2, <3>2, <3>3, <3>4, OwnerRecordSound DEF done
    <3>6. WriteThen(q, After[o])
      BY <1>7, <2>1 DEF RecordOwner, q
    <3>7. After[o] \in Located => manifest # NoManifest
      BY <1>1, <1>2, <2>1, OwnerStages DEF Inductive
    <3> QED BY <1>1, <1>3, <1>4, <1>7, <3>3, <3>5, <3>6, <3>7, WriteThenKeeps DEF RecordOwner
  <2>2. CASE result = "fail"
    <3> DEFINE s == FailedStage(o)
    <3>1. {s} \in SUBSET Stage /\ "FAIL" \in Status
      BY <1>3 DEF Status
    <3>2. MarkStages(mem, {s}, "FAIL") \in Receipt
      BY <1>2, <3>1, MarkStagesFields
    <3>3. s \in Stage /\ s # controlled_reboot /\ s # post_reboot_proof /\ s # protected_dns_gate
      BY <1>3
    <3>4. Fail(s)
      BY <1>7, <2>2 DEF RecordOwner
    <3> HIDE DEF s
    <3> QED BY <1>1, <1>2, <1>4, <1>7, <3>2, <3>3, <3>4, FailureSound, WriteAndStopKeeps
            DEF RecordOwner, Fail, Outcome
  <2> QED BY <1>7, <2>1, <2>2 DEF RecordOwner
<1> QED BY <1>5, <1>6, <1>7

-----------------------------------------------------------------------------
(* External runtime *)

(* When a runtime is to be recorded, no stage after the installation is    *)
(* done: either the installation was open, or the document just accepted   *)
(* has reopened it.                                                        *)
LEMMA ReviewedReceipt ==
  ASSUME Inductive, RuntimeReviewed
  PROVE  /\ mem \in Receipt /\ Reviewed \in Receipt /\ Sound(Reviewed)
         /\ Reviewed = mem \/ (/\ Evident /\ Acceptable(mem, run.evidence)
                               /\ Reviewed = Accepted(mem, run.evidence)
                               /\ Known(Reviewed, run.evidence))
         /\ ~RuntimeKept =>
              \A t \in Stage : t > autostart => ~StageDone(Reviewed, t)
<1>1. /\ pc = "runtime" /\ RuntimeMode = "external-evidence"
      /\ mem \in Receipt /\ Sound(mem) /\ mem = disk /\ Writable(mem) /\ run \in Run
  BY RunHoldsReceipt DEF RuntimeReviewed, Inductive
<1>2. Evident => run.evidence \in Evidence
  BY <1>1 DEF Run, Evident
<1>3. CASE RuntimeAccepted /\ Evident
  <2>1. /\ Reviewed = Accepted(mem, run.evidence) /\ Acceptable(mem, run.evidence)
        /\ run.evidence \in Evidence
    BY <1>2, <1>3 DEF Reviewed, RuntimeReviewed
  <2>2. /\ Reviewed \in Receipt /\ Sound(Reviewed) /\ Reviewed.discovery = run.evidence
    BY <1>1, <2>1, AcceptedSound
  <2>3. Known(Reviewed, run.evidence)
    BY <2>1, <2>2, EvidenceAssumption DEF Known
  <2>4. ASSUME ~RuntimeKept, NEW t \in Stage, t > autostart
        PROVE  ~StageDone(Reviewed, t)
    <3>1. Reviewed.runtime_disposition # mem.runtime_disposition
      BY <1>3, <2>4 DEF RuntimeKept
    <3>2. ~Known(mem, run.evidence)
      BY <2>1, <3>1 DEF Accepted
    <3>3. PICK cut \in 1..18 :
            /\ \A s \in Stage : Reviewed.stages[s] = IF s >= cut THEN Pending ELSE mem.stages[s]
            /\ cut <= autostart
      BY <1>1, <2>1, <3>1, <3>2, AcceptedCut
    <3>4. Reviewed.stages[t] = Pending
      BY <2>4, <3>3, StageNumbers
    <3> QED BY <3>4 DEF StageDone, Pending
  <2> QED BY <1>1, <1>3, <2>1, <2>2, <2>3, <2>4
<1>4. CASE ~(RuntimeAccepted /\ Evident)
  <2>1. Reviewed = mem
    BY <1>4 DEF Reviewed
  <2>2. ASSUME ~RuntimeKept, NEW t \in Stage, t > autostart
        PROVE  ~StageDone(Reviewed, t)
    <3>1. mem.runtime_disposition = "PENDING" \/ mem.runtime_disposition = "EXECUTED"
      BY <1>1, <2>1, <2>2 DEF RuntimeKept, RuntimeAccepted, Receipt, Disposition
    <3>2. ~AllDone(mem, INSTALLATION_STAGES)
      BY <1>1, <3>1 DEF Writable, Valid, DispositionValid
    <3>3. PICK u \in INSTALLATION_STAGES : ~StageDone(mem, u)
      BY <3>2 DEF AllDone
    <3>4. u \in Stage /\ u < t
      BY <2>2, StageNumbers
    <3> QED BY <1>1, <2>1, <3>3, <3>4 DEF Sound, InOrder
  <2> QED BY <1>1, <2>1, <2>2
<1> QED BY <1>3, <1>4

(* The steps of the external runtime keep the inductive invariant: one     *)
(* write may record ten stages, all in the epoch just accepted.            *)
LEMMA RuntimeKeeps ==
  ASSUME Inductive, RuntimeError \/ KeepRuntime \/ RuntimeHandoff \/ RecordRuntime
  PROVE  Inductive'
<1>1. /\ pc = "runtime" /\ mem = disk /\ mem \in Receipt /\ Sound(mem)
      /\ disk \in Receipt /\ run \in Run /\ WorldTyped
  BY RunHoldsReceipt
     DEF RuntimeError, KeepRuntime, RuntimeHandoff, RecordRuntime, RuntimeReviewed
<1>2. world' = world /\ faults' = faults => WorldTyped' /\ packet' = packet
  BY <1>1 DEF world, WorldTyped
<1>3. CASE RuntimeError
  BY <1>2, <1>3, StopKeeps DEF RuntimeError, Error, Quiet, Outcome
<1>4. CASE KeepRuntime
  <2>1. /\ mem' = Reviewed /\ pc' = "component" /\ UNCHANGED <<disk, run, result, outcome>>
        /\ world' = world /\ faults' = faults
    BY <1>4 DEF KeepRuntime, Calm
  <2>2. Reviewed \in Receipt
    BY <1>4, ReviewedReceipt DEF KeepRuntime
  <2>3. TypeOK'
    BY <1>1, <1>2, <2>1, <2>2, ModeAssumption DEF Inductive, TypeOK, WorldTyped, Label
  <2>4. (disk # NoReceipt => Sound(disk) /\ Writable(disk))'
    BY <2>1 DEF Inductive
  <2>5. InStep'
    <3>1. Reviewed = mem \/ (/\ Evident /\ Acceptable(mem, run.evidence)
                            /\ Reviewed = Accepted(mem, run.evidence))
      BY <1>4, ReviewedReceipt DEF KeepRuntime
    <3> QED BY <1>1, <2>1, <3>1 DEF InStep, Evident
  <2>6. manifest' # NoManifest
    <3>1. manifest = mem.endpoint_manifest /\ RuntimeAccepted /\ Writable(mem)
      BY <1>1, <1>4, RunHoldsReceipt DEF KeepRuntime, RuntimeReviewed, RuntimeKept
    <3>2. mem.stages[strict_plan].status \in {"PASS", "SKIPPED"}
      BY <3>1, StageNumbers DEF RuntimeAccepted, Writable, Valid, DispositionValid, AdoptedStatus
    <3> QED BY <2>1, <3>1, <3>2 DEF Writable, Valid, StageDone, world
  <2>7. result' = "packet" => packet' \in Packet
    BY <1>2, <2>1 DEF Inductive
  <2> QED BY <2>1, <2>3, <2>4, <2>5, <2>6, <2>7 DEF Inductive, Owner
<1>5. CASE RuntimeHandoff
  BY <1>1, <1>2, <1>5, ReviewedReceipt, WriteAndStopKeeps
     DEF RuntimeHandoff, Quiet, Outcome, Handoffs
<1>6. CASE RecordRuntime
  <2> DEFINE r == Accepted(Reviewed, run.evidence)
             q == RuntimeReceipt
             S == INSTALLATION_STAGES
             st == [s \in Stage |-> IF s \in S
                      THEN [status |-> IF Adopt THEN AdoptedStatus(s) ELSE "PASS",
                            epoch |-> r.state_epoch]
                      ELSE r.stages[s]]
             rd == IF Adopt THEN "ADOPTED" ELSE "EXTERNAL_EXECUTED"
             located == [r EXCEPT !.endpoint_manifest = manifest, !.runtime_evidence = TRUE,
                                  !.runtime_disposition = rd, !.stages = st]
  <2>1. /\ RuntimeReviewed /\ ~RuntimeKept /\ Evident /\ run.evidence \in Evidence
        /\ Acceptable(Reviewed, run.evidence)
    BY <1>1, <1>6 DEF RecordRuntime, Sufficient, Run, Evident
  <2>2. /\ Reviewed \in Receipt /\ Sound(Reviewed)
        /\ \A t \in Stage : t > autostart => ~StageDone(Reviewed, t)
    BY <2>1, ReviewedReceipt
  <2>3. r \in Receipt /\ Sound(r)
    BY <2>1, <2>2, AcceptedSound
  <2>4. \A t \in Stage : t > autostart => ~StageDone(r, t)
    <3>1. CASE Known(Reviewed, run.evidence)
      BY <2>2, <3>1 DEF Accepted
    <3>2. CASE ~Known(Reviewed, run.evidence)
      <4>1. \A s \in Stage : r.stages[s] = Pending \/ r.stages[s] = Reviewed.stages[s]
        BY <2>1, <2>2, <3>2, AcceptedCut
      <4> QED BY <2>2, <4>1 DEF StageDone, Pending
    <3> QED BY <3>1, <3>2
  <2>5. q = [located EXCEPT !.final_verification = DerivedFinal(located)]
    BY DEF RuntimeReceipt
  <2>6. DerivedFinal(located) \in SUBSET FinalArea
    BY DEF DerivedFinal
  <2> HIDE DEF r, q
  <2>7. st \in [Stage -> [status : Status, epoch : Epoch]]
    BY <2>3 DEF Receipt, Status, Epoch, AdoptedStatus
  <2>8. rd \in Disposition /\ manifest \in Manifest \cup {NoManifest}
    BY <1>1 DEF Disposition, WorldTyped
  <2>9. \A s \in Stage : /\ s \notin S => st[s] = r.stages[s]
                         /\ s \in S => st[s].epoch = r.state_epoch
    OBVIOUS
  <2> HIDE DEF st, rd
  <2>10. /\ located \in Receipt /\ located.stages = st /\ located.state_epoch = r.state_epoch
         /\ located.discovery = r.discovery
         /\ located.native_transaction = r.native_transaction
         /\ located.reboot_required = r.reboot_required
    BY <2>3, <2>7, <2>8 DEF Receipt
  <2> HIDE DEF located
  <2>11. /\ q \in Receipt /\ q.stages = st /\ q.state_epoch = r.state_epoch
         /\ q.discovery = r.discovery
         /\ q.native_transaction = r.native_transaction
         /\ q.reboot_required = r.reboot_required
    BY <2>5, <2>6, <2>10 DEF Receipt
  <2>12. Recording(r, q, S)
    <3>1. \A s \in S, t \in Stage \ S : s < t => ~StageDone(q, t)
      BY <2>4, <2>9, <2>11, StageNumbers DEF StageDone
    <3> QED BY <2>9, <2>11, <3>1, StageNumbers DEF Recording
  <2>13. InOrder(q) => Sound(q)
    BY <2>3, <2>11, <2>12, RecordingSound, StageNumbers
  <2>14. WriteThen(q, "component") /\ Quiet /\ manifest' # NoManifest
    BY <1>6 DEF RecordRuntime, Sufficient, Quiet, world, q
  <2> QED BY <1>1, <1>2, <2>11, <2>13, <2>14, WriteThenKeeps DEF Quiet, Label, Late, Owner
<1> QED BY <1>3, <1>4, <1>5, <1>6

(* Both forms of the installation keep the inductive invariant.            *)
LEMMA InstallationKeeps == Inductive /\ Installation => Inductive'
BY PreflightKeeps, OwnerKeeps, RuntimeKeeps DEF Installation

-----------------------------------------------------------------------------
(* Component and reboot *)

(* Accepting the evidence of the run and recording the Proxy component keep*)
(* the inductive invariant.                                                *)
LEMMA ComponentKeeps ==
  ASSUME Inductive, AcceptAtComponent \/ InspectComponent
  PROVE  Inductive'
<1>1. /\ pc \in {"component", "inspect"} /\ pc # "idle"
      /\ mem \in Receipt /\ Sound(mem) /\ run \in Run /\ WorldTyped
      /\ pc = "inspect" => mem = disk
      /\ ~Evident => mem = disk
      /\ manifest # NoManifest
  BY RunHoldsReceipt DEF AcceptAtComponent, InspectComponent, Label, Owner, Located
<1>2. Quiet => WorldTyped' /\ manifest' = manifest /\ packet' = packet
  BY <1>1 DEF Quiet, world, WorldTyped
<1>3. Evident => run.evidence \in Evidence
  BY <1>1 DEF Run, Evident
<1>4. pc = "inspect" /\ Evident => mem.discovery = run.evidence
  BY DEF Inductive
<1>5. CASE AcceptAtComponent
  <2>1. CASE ~Evident /\ GoOn("inspect")
    BY <1>1, <1>2, <1>5, <2>1, GoOnKeeps DEF AcceptAtComponent, Label, Owner
  <2>2. CASE Error
    BY <1>2, <1>5, <2>2, StopKeeps DEF AcceptAtComponent, Error, Outcome
  <2>3. CASE /\ Evident /\ Acceptable(mem, run.evidence)
             /\ WriteThen(Accepted(mem, run.evidence), "inspect")
    <3>1. /\ Accepted(mem, run.evidence) \in Receipt /\ Sound(Accepted(mem, run.evidence))
          /\ Accepted(mem, run.evidence).discovery = run.evidence
      BY <1>1, <1>3, <2>3, AcceptedSound
    <3> QED BY <1>1, <1>2, <1>5, <2>3, <3>1, WriteThenKeeps DEF AcceptAtComponent, Label
  <2> QED BY <1>5, <2>1, <2>2, <2>3 DEF AcceptAtComponent
<1>6. CASE InspectComponent
  <2>1. mem = disk
    BY <1>1, <1>6 DEF InspectComponent
  <2>2. CASE GoOn("reboot")
    BY <1>1, <1>2, <1>4, <1>6, <2>1, <2>2, GoOnKeeps DEF InspectComponent, Label, Owner
  <2>3. CASE \/ Handoff("PROXY_COMPONENT_INSPECTION_REQUIRED")
             \/ Handoff("PROXY_COMPONENT_INSTALL_REQUIRED")
    BY <1>1, <1>2, <1>6, <2>3, WriteAndStopKeeps DEF InspectComponent, Handoff, Outcome, Handoffs
  <2>4. CASE Error
    BY <1>2, <1>6, <2>4, StopKeeps DEF InspectComponent, Error, Outcome
  <2>5. CASE ~StageDone(mem, native_proxy_component) /\ WriteThen(ComponentReceipt, "reboot")
    <3> DEFINE done == MarkStages(mem, {native_proxy_component}, "PASS")
               rr == IF run.evidence.component = "ready+reboot" THEN "yes" ELSE "no"
               q == ComponentReceipt
    <3>1. /\ done \in Receipt
          /\ \A s \in Stage : done.stages[s] =
               IF s \in {native_proxy_component}
               THEN [status |-> "PASS", epoch |-> mem.state_epoch] ELSE mem.stages[s]
      <4>1. {native_proxy_component} \in SUBSET Stage /\ "PASS" \in Status
        BY StageNumbers DEF Status
      <4> QED BY <1>1, <4>1, MarkStagesFields
    <3>2. /\ done.state_epoch = mem.state_epoch /\ done.discovery = mem.discovery
          /\ done.native_transaction = mem.native_transaction
      BY <1>1 DEF MarkStages, Receipt
    <3>3. q = [done EXCEPT !.reboot_required = rr]
      BY DEF ComponentReceipt
    <3>4. rr \in {"unknown", "yes", "no"}
      OBVIOUS
    <3> HIDE DEF q, done, rr
    <3>5. /\ q \in Receipt /\ q.stages = done.stages /\ q.state_epoch = done.state_epoch
          /\ q.discovery = done.discovery /\ q.native_transaction = done.native_transaction
      BY <3>1, <3>3, <3>4 DEF Receipt
    <3>6. \A t \in Stage : t >= native_proxy_component => ~StageDone(mem, t)
      BY <1>1, <2>5, StageNumbers DEF Sound, InOrder
    <3>7. Recording(mem, q, {native_proxy_component})
      BY <3>1, <3>2, <3>5, <3>6, StageNumbers DEF Recording, StageDone
    <3>8. InOrder(q) => Sound(q)
      BY <1>1, <3>5, <3>7, RecordingSound, StageNumbers
    <3> QED BY <1>1, <1>2, <1>4, <1>6, <2>5, <3>2, <3>5, <3>8, WriteThenKeeps
            DEF InspectComponent, Label, q
  <2> QED BY <1>6, <2>2, <2>3, <2>4, <2>5 DEF InspectComponent
<1> QED BY <1>5, <1>6

(* The two reboot stages recorded together as the decision demands.        *)
LEMMA RebootRecordSound ==
  ASSUME NEW r \in Receipt, Sound(r), ~StageDone(r, controlled_reboot),
         NEW status \in Status, status = IF r.reboot_required = "yes" THEN "PASS" ELSE "SKIPPED",
         NEW q \in Receipt, InOrder(q),
         q.stages = MarkStages(r, {controlled_reboot, post_reboot_proof}, status).stages,
         q.state_epoch = r.state_epoch, q.discovery = r.discovery,
         q.native_transaction = r.native_transaction, q.reboot_required = r.reboot_required
  PROVE  Sound(q)
<1> DEFINE S == {controlled_reboot, post_reboot_proof}
<1>1. S \in SUBSET Stage
  BY StageNumbers
<1>2. \A s \in Stage : q.stages[s] =
        IF s \in S THEN [status |-> status, epoch |-> r.state_epoch] ELSE r.stages[s]
  BY <1>1, MarkStagesFields
<1>3. \A t \in Stage : t >= controlled_reboot => ~StageDone(r, t)
  BY StageNumbers DEF Sound, InOrder
<1>4. \A s \in S, t \in Stage \ S : s < t => ~StageDone(q, t)
  BY <1>2, <1>3, StageNumbers DEF StageDone
<1>5. /\ \A s \in S : q.stages[s] = [status |-> status, epoch |-> r.state_epoch]
      /\ \A s \in Stage \ S : q.stages[s] = r.stages[s]
  BY <1>1, <1>2
<1>6. protected_dns_gate \notin S
  BY StageNumbers
<1>7. \A s \in {controlled_reboot, post_reboot_proof} :
        q.stages[s].status = IF q.reboot_required = "yes" THEN "PASS" ELSE "SKIPPED"
  BY <1>5
<1> HIDE DEF S
<1>8. \A s \in S : q.stages[s].epoch = r.state_epoch
  BY <1>5
<1>9. Recording(r, q, S)
  BY <1>4, <1>5, <1>6, <1>7, <1>8 DEF Recording
<1> QED BY <1>1, <1>9, RecordingSound

(* The reboot steps keep the inductive invariant: skipped or proven, the two*)
(* stages are recorded in one write.                                       *)
LEMMA RebootKeeps ==
  ASSUME Inductive, PassReboot \/ SkipReboot \/ ProveReboot \/ RebootHandoff
  PROVE  Inductive'
<1>1. /\ pc = "reboot" /\ mem = disk /\ mem \in Receipt /\ Sound(mem) /\ WorldTyped
      /\ Evident => mem.discovery = run.evidence
      /\ manifest # NoManifest
  BY RunHoldsReceipt DEF PassReboot, SkipReboot, ProveReboot, RebootHandoff, RebootOpen,
     Inductive, Label, Owner, Located
<1>2. Quiet => WorldTyped' /\ manifest' = manifest /\ packet' = packet
  BY <1>1 DEF Quiet, world, WorldTyped
<1> DEFINE S == {controlled_reboot, post_reboot_proof}
<1>3. ASSUME NEW status \in Status
      PROVE  /\ MarkStages(mem, S, status) \in Receipt
             /\ MarkStages(mem, S, status).state_epoch = mem.state_epoch
             /\ MarkStages(mem, S, status).discovery = mem.discovery
             /\ MarkStages(mem, S, status).native_transaction = mem.native_transaction
             /\ MarkStages(mem, S, status).reboot_required = mem.reboot_required
  <2>1. S \in SUBSET Stage
    BY StageNumbers
  <2>2. MarkStages(mem, S, status) \in Receipt
    BY <1>1, <1>3, <2>1, MarkStagesFields
  <2> QED BY <1>1, <2>2 DEF MarkStages, Receipt
<1>4. CASE PassReboot
  BY <1>1, <1>2, <1>4, GoOnKeeps DEF PassReboot, Label, Owner
<1>5. CASE SkipReboot
  <2> DEFINE q == MarkStages(mem, S, "SKIPPED")
  <2>1. "SKIPPED" \in Status
    BY DEF Status
  <2>2. /\ q \in Receipt /\ q.state_epoch = mem.state_epoch /\ q.discovery = mem.discovery
        /\ q.native_transaction = mem.native_transaction
        /\ q.reboot_required = mem.reboot_required
    BY <1>3, <2>1
  <2>3. InOrder(q) => Sound(q)
    BY <1>1, <1>5, <2>1, <2>2, RebootRecordSound DEF SkipReboot, RebootOpen
  <2>4. WriteThen(q, "native") /\ Quiet
    BY <1>5 DEF SkipReboot
  <2> HIDE DEF q
  <2> QED BY <1>1, <1>2, <2>2, <2>3, <2>4, WriteThenKeeps DEF Label
<1>6. CASE ProveReboot
  <2>1. CASE Error
    BY <1>1, <1>2, <1>6, <2>1, StopKeeps DEF ProveReboot, Error, Outcome
  <2>2. CASE WriteThen(RebootReceipt, "native")
    <3> DEFINE done == MarkStages(mem, S, "PASS")
               q == RebootReceipt
    <3>1. "PASS" \in Status
      BY DEF Status
    <3>2. /\ done \in Receipt /\ done.state_epoch = mem.state_epoch
          /\ done.discovery = mem.discovery
          /\ done.native_transaction = mem.native_transaction
          /\ done.reboot_required = mem.reboot_required
      BY <1>3, <3>1
    <3>3. q = [done EXCEPT !.completed_reboot_epoch = mem.state_epoch]
      BY DEF RebootReceipt
    <3>4. mem.state_epoch \in Epoch
      BY <1>1 DEF Receipt, Epoch
    <3> HIDE DEF done, q
    <3>5. /\ q \in Receipt /\ q.stages = done.stages /\ q.state_epoch = done.state_epoch
          /\ q.discovery = done.discovery /\ q.native_transaction = done.native_transaction
          /\ q.reboot_required = done.reboot_required
      BY <3>2, <3>3, <3>4 DEF Receipt
    <3>6. InOrder(q) => Sound(q)
      BY <1>1, <1>6, <3>1, <3>2, <3>5, RebootRecordSound DEF ProveReboot, RebootOpen, done
    <3> QED BY <1>1, <1>2, <1>6, <2>2, <3>2, <3>5, <3>6, WriteThenKeeps DEF ProveReboot, Label, q
  <2> QED BY <1>6, <2>1, <2>2 DEF ProveReboot
<1>7. CASE RebootHandoff
  <2>1. CASE Stop("traceback") /\ UNCHANGED disk
    BY <1>1, <1>2, <1>7, <2>1, StopKeeps DEF RebootHandoff, Outcome
  <2>2. CASE \/ Handoff("CONTROLLED_REBOOT_AUTHORIZATION_REQUIRED")
             \/ Handoff("CONTROLLED_REBOOT_REQUIRED")
    BY <1>1, <1>2, <1>7, <2>2, WriteAndStopKeeps DEF RebootHandoff, Handoff, Outcome, Handoffs
  <2> QED BY <1>7, <2>1, <2>2 DEF RebootHandoff
<1> QED BY <1>4, <1>5, <1>6, <1>7

-----------------------------------------------------------------------------
(* Native transaction *)

(* A change of the native transaction alone, while its stage is open.      *)
LEMMA TransactionSound ==
  ASSUME NEW r \in Receipt, Sound(r), ~StageDone(r, native_proxy_policy_transaction),
         NEW q \in Receipt, InOrder(q), q.stages = r.stages,
         q.state_epoch = r.state_epoch, q.discovery = r.discovery,
         q.reboot_required = r.reboot_required
  PROVE  Sound(q)
<1>1. Recording(r, q, {})
  BY StageNumbers DEF Recording
<1> QED BY <1>1, RecordingSound

(* The native stage recorded together with its transaction.                *)
LEMMA NativeRecordSound ==
  ASSUME NEW r \in Receipt, Sound(r), ~StageDone(r, native_proxy_policy_transaction),
         NEW q \in Receipt, InOrder(q),
         q.stages = MarkStages(r, {native_proxy_policy_transaction}, "PASS").stages,
         q.state_epoch = r.state_epoch, q.discovery = r.discovery,
         q.reboot_required = r.reboot_required
  PROVE  Sound(q)
<1> DEFINE S == {native_proxy_policy_transaction}
<1>1. S \in SUBSET Stage /\ "PASS" \in Status
  BY StageNumbers DEF Status
<1>2. \A s \in Stage : q.stages[s] =
        IF s \in S THEN [status |-> "PASS", epoch |-> r.state_epoch] ELSE r.stages[s]
  BY <1>1, MarkStagesFields
<1>3. \A t \in Stage : t >= native_proxy_policy_transaction => ~StageDone(r, t)
  BY StageNumbers DEF Sound, InOrder
<1>4. \A s \in S, t \in Stage \ S : s < t => ~StageDone(q, t)
  BY <1>2, <1>3, StageNumbers DEF StageDone
<1>5. /\ \A s \in S : q.stages[s].epoch = r.state_epoch
      /\ \A s \in Stage \ S : q.stages[s] = r.stages[s]
  BY <1>1, <1>2
<1>6. protected_dns_gate \notin S /\ controlled_reboot \notin S /\ post_reboot_proof \notin S
  BY StageNumbers
<1> HIDE DEF S
<1>7. Recording(r, q, S)
  BY <1>4, <1>5, <1>6 DEF Recording
<1> QED BY <1>1, <1>7, RecordingSound

(* A recorded failure of the native stage keeps the inductive invariant.   *)
LEMMA NativeFailureKeeps ==
  ASSUME Inductive, pc # "idle", NativeFailed, WorldTyped'
  PROVE  Inductive'
<1>1. mem \in Receipt /\ Sound(mem)
  BY RunHoldsReceipt
<1> DEFINE s == native_proxy_policy_transaction
<1>2. /\ s \in Stage /\ s # controlled_reboot /\ s # post_reboot_proof /\ s # protected_dns_gate
      /\ {s} \in SUBSET Stage /\ "FAIL" \in Status
  BY StageNumbers DEF Status
<1>3. MarkStages(mem, {s}, "FAIL") \in Receipt
  BY <1>1, <1>2, MarkStagesFields
<1>4. WriteAndStop(MarkStages(mem, {s}, "FAIL"), "failed")
  BY DEF NativeFailed, Fail
<1> HIDE DEF s
<1> QED BY <1>1, <1>2, <1>3, <1>4, FailureSound, WriteAndStopKeeps DEF Outcome

(* A change of the router by a subprocess of the run.                      *)
LEMMA NativeSubprocessKeeps ==
  ASSUME Inductive, pc = "native", NativeSubprocess, result' \in Result \ {"packet"},
         router' \in [running : Manifest \cup {NoManifest}, startup : Manifest \cup {NoManifest}],
         faults' \in Nat
  PROVE  Inductive'
<1>1. mem = disk
  BY RunHoldsReceipt
<1>2. TypeOK'
  BY DEF Inductive, TypeOK, NativeSubprocess
<1>3. (disk # NoReceipt => Sound(disk) /\ Writable(disk))'
  <2>1. Sound(disk)' = Sound(disk) /\ Writable(disk)' = Writable(disk)
    BY DEF NativeSubprocess
  <2> QED BY <2>1 DEF Inductive, NativeSubprocess
<1> QED BY <1>1, <1>2, <1>3 DEF Inductive, InStep, Evident, NativeSubprocess, Owner

(* The local native transaction keeps the inductive invariant.             *)
LEMMA LocalNativeKeeps ==
  ASSUME Inductive,
         \/ PassNative \/ LocalNativePlan \/ LocalNativeSave \/ LocalNativeRollback
         \/ RecordLocalNative
  PROVE  Inductive'
<1>1. /\ pc = "native" /\ mem = disk /\ mem \in Receipt /\ Sound(mem) /\ WorldTyped
      /\ Evident => mem.discovery = run.evidence
      /\ manifest # NoManifest
  BY RunHoldsReceipt DEF PassNative, LocalNativePlan, LocalNativeSave, LocalNativeRollback,
     RecordLocalNative, LocalNative, NativeOpen, Inductive, Label, Owner, Located
<1>2. Quiet => WorldTyped' /\ manifest' = manifest /\ packet' = packet
  BY <1>1 DEF Quiet, world, WorldTyped
<1>3. mem.state_epoch \in Epoch
  BY <1>1 DEF Receipt, Epoch
<1>4. CASE PassNative
  BY <1>1, <1>2, <1>4, GoOnKeeps DEF PassNative, Label, Owner
<1>5. CASE LocalNativePlan
  BY <1>1, <1>3, <1>5, ModeAssumption, NativeSubprocessKeeps
     DEF LocalNativePlan, WorldTyped, Result, Calm, Fault
<1>6. CASE LocalNativeSave
  BY <1>1, <1>6, NativeSubprocessKeeps DEF LocalNativeSave, WorldTyped, Result, Calm
<1>7. CASE LocalNativeRollback
  BY <1>1, <1>7, ModeAssumption, NativeSubprocessKeeps
     DEF LocalNativeRollback, WorldTyped, Result, Fault
<1>8. CASE RecordLocalNative
  <2>1. CASE WriteThen(LocalNativeReceipt, "dns")
    <3> DEFINE done == MarkStages(mem, {native_proxy_policy_transaction}, "PASS")
               nt == [done.native_transaction EXCEPT !.status = "PASS",
                        !.write_required = (result = "wrote"), !.pre_epoch = mem.state_epoch]
               with == [done EXCEPT !.native_transaction = nt]
               q == LocalNativeReceipt
    <3>1. done \in Receipt
      <4>1. {native_proxy_policy_transaction} \in SUBSET Stage /\ "PASS" \in Status
        BY StageNumbers DEF Status
      <4> QED BY <1>1, <4>1, MarkStagesFields
    <3>2. /\ done.state_epoch = mem.state_epoch /\ done.discovery = mem.discovery
          /\ done.reboot_required = mem.reboot_required
      BY <1>1 DEF MarkStages, Receipt
    <3>3. q = Verified(with, {"native_routing"})
      BY DEF LocalNativeReceipt
    <3> HIDE DEF done, q
    <3>4. nt \in NativeTransaction
      <4> DEFINE old == done.native_transaction
      <4>1. old \in NativeTransaction
        BY <3>1 DEF Receipt
      <4> HIDE DEF old
      <4> QED BY <1>3, <4>1 DEF NativeTransaction, old
    <3> HIDE DEF nt
    <3>5. /\ with \in Receipt /\ with.stages = done.stages /\ with.state_epoch = done.state_epoch
          /\ with.discovery = done.discovery /\ with.reboot_required = done.reboot_required
      BY <3>1, <3>4 DEF Receipt
    <3> HIDE DEF with
    <3>6. /\ q \in Receipt /\ q.stages = with.stages /\ q.state_epoch = with.state_epoch
          /\ q.discovery = with.discovery /\ q.reboot_required = with.reboot_required
      BY <3>3, <3>5 DEF Verified, Receipt, FinalArea
    <3>7. InOrder(q) => Sound(q)
      BY <1>1, <1>8, <3>2, <3>5, <3>6, NativeRecordSound
         DEF RecordLocalNative, LocalNative, NativeOpen, done
    <3> QED BY <1>1, <1>2, <1>8, <2>1, <3>2, <3>5, <3>6, <3>7, WriteThenKeeps
            DEF RecordLocalNative, Label, q
  <2>2. CASE Fail(native_proxy_policy_transaction)
    BY <1>1, <1>2, <1>8, <2>2, NativeFailureKeeps DEF RecordLocalNative, NativeFailed
  <2> QED BY <1>8, <2>1, <2>2 DEF RecordLocalNative
<1> QED BY <1>4, <1>5, <1>6, <1>7, <1>8

(* The external native transaction up to its delivery keeps the inductive  *)
(* invariant.                                                              *)
LEMMA ExternalPlanKeeps ==
  ASSUME Inductive,
         \/ ExternalPreState \/ ExternalBuildPacket \/ ExternalPlanned \/ ExternalPacketLost
         \/ ExternalDelivery
  PROVE  Inductive'
<1>1. /\ pc = "native" /\ mem = disk /\ mem \in Receipt /\ Sound(mem) /\ WorldTyped
      /\ ~StageDone(mem, native_proxy_policy_transaction)
      /\ Evident => mem.discovery = run.evidence
      /\ manifest \in Manifest
  <2>1. pc = "native" /\ ~StageDone(mem, native_proxy_policy_transaction)
    BY DEF ExternalPreState, ExternalBuildPacket, ExternalPlanned, ExternalPacketLost,
       ExternalDelivery, PacketOpen, ExternalNative, NativeOpen
  <2>2. mem = disk /\ mem \in Receipt /\ Sound(mem) /\ WorldTyped /\ manifest # NoManifest
    BY <2>1, RunHoldsReceipt DEF Label, Owner, Located
  <2> QED BY <2>1, <2>2 DEF Inductive, WorldTyped
<1>2. Quiet => WorldTyped' /\ manifest' = manifest /\ packet' = packet
  BY <1>1 DEF Quiet, world, WorldTyped
<1>3. CASE ExternalPreState
  BY <1>1, <1>2, <1>3, WriteAndStopKeeps DEF ExternalPreState, Handoff, Outcome, Handoffs
<1>4. CASE ExternalBuildPacket
  <2>1. CASE NativeFailed /\ UNCHANGED packet /\ (Calm \/ Fault)
    <3>1. faults' \in Nat
      BY <1>1, <2>1, ModeAssumption DEF Calm, Fault, WorldTyped
    <3>2. WorldTyped'
      BY <1>1, <1>4, <2>1, <3>1 DEF ExternalBuildPacket, WorldTyped
    <3> QED BY <1>1, <2>1, <3>2, NativeFailureKeeps
  <2>2. CASE /\ packet' = [manifest |-> manifest, write_required |-> router.running # manifest]
             /\ result' = "packet" /\ UNCHANGED <<disk, mem, pc, run, outcome>> /\ Calm
    <3>1. WorldTyped'
      BY <1>1, <1>4, <2>2 DEF ExternalBuildPacket, WorldTyped, Packet, Calm
    <3>2. TypeOK'
      BY <2>2, <3>1 DEF Inductive, TypeOK, WorldTyped, Result
    <3>3. (disk # NoReceipt => Sound(disk) /\ Writable(disk))'
      <4>1. Sound(disk)' = Sound(disk) /\ Writable(disk)' = Writable(disk)
        BY <2>2
      <4> QED BY <2>2, <4>1 DEF Inductive
    <3>4. manifest' = manifest /\ manifest # NoManifest /\ packet' \in Packet
      BY <1>1, <1>4, <2>2, EvidenceAssumption DEF ExternalBuildPacket, Packet
    <3> QED BY <1>1, <2>2, <3>2, <3>3, <3>4 DEF Inductive, InStep, Evident, Owner
  <2> QED BY <1>4, <2>1, <2>2 DEF ExternalBuildPacket
<1>5. CASE ExternalPlanned
  <2> DEFINE nt == [status |-> "PLANNED", packet |-> packet,
                    write_required |-> packet.write_required, pre_epoch |-> mem.state_epoch]
             q == [mem EXCEPT !.native_transaction = nt]
  <2>1. packet \in Packet
    BY <1>5 DEF ExternalPlanned, Inductive
  <2>2. nt \in NativeTransaction
    BY <1>1, <2>1 DEF NativeTransaction, Packet, Epoch, Receipt, WorldTyped
  <2> HIDE DEF nt
  <2>3. /\ q \in Receipt /\ q.stages = mem.stages /\ q.state_epoch = mem.state_epoch
        /\ q.discovery = mem.discovery /\ q.reboot_required = mem.reboot_required
    BY <1>1, <2>2 DEF Receipt
  <2>4. WriteThen(q, "native") /\ Quiet
    BY <1>5 DEF ExternalPlanned, nt
  <2> HIDE DEF q
  <2>5. InOrder(q) => Sound(q)
    BY <1>1, <2>3, TransactionSound
  <2> QED BY <1>1, <1>2, <2>3, <2>4, <2>5, EvidenceAssumption, WriteThenKeeps DEF Label
<1>6. CASE ExternalPacketLost
  BY <1>1, <1>2, <1>6, NativeFailureKeeps DEF ExternalPacketLost
<1>7. CASE ExternalDelivery
  <2> DEFINE why == IF mem.native_transaction.write_required
                    THEN "EXTERNAL_NATIVE_TRANSACTION_DELIVERY_REQUIRED"
                    ELSE "EXTERNAL_NATIVE_NOOP_READBACK_REQUIRED"
  <2>1. why \in Outcome
    BY DEF Outcome, Handoffs
  <2>2. WriteAndStop(mem, why) /\ Quiet
    BY <1>7 DEF ExternalDelivery, Handoff
  <2> HIDE DEF why
  <2> QED BY <1>1, <1>2, <2>1, <2>2, WriteAndStopKeeps
<1> QED BY <1>3, <1>4, <1>5, <1>6, <1>7

(* The external native transaction after its delivery keeps the inductive  *)
(* invariant.                                                              *)
LEMMA ExternalVerifyKeeps ==
  ASSUME Inductive, ExternalRunning \/ ExternalSave \/ ExternalSaved
  PROVE  Inductive'
<1>1. /\ pc = "native" /\ mem = disk /\ mem \in Receipt /\ Sound(mem) /\ WorldTyped
      /\ ~StageDone(mem, native_proxy_policy_transaction)
      /\ Evident => mem.discovery = run.evidence
      /\ manifest # NoManifest
  <2>1. pc = "native" /\ ~StageDone(mem, native_proxy_policy_transaction)
    BY DEF ExternalRunning, ExternalSave, ExternalSaved, PacketOpen, ExternalNative, NativeOpen
  <2>2. mem = disk /\ mem \in Receipt /\ Sound(mem) /\ WorldTyped /\ manifest # NoManifest
    BY <2>1, RunHoldsReceipt DEF Label, Owner, Located
  <2> QED BY <2>1, <2>2 DEF Inductive
<1>2. Quiet => WorldTyped' /\ manifest' = manifest /\ packet' = packet
  BY <1>1 DEF Quiet, world, WorldTyped
<1>3. ASSUME NEW st \in {"RUNNING_VERIFIED", "PASS"}, NEW r \in Receipt
      PROVE  /\ [r EXCEPT !.native_transaction.status = st] \in Receipt
             /\ [r EXCEPT !.native_transaction.status = st].stages = r.stages
             /\ [r EXCEPT !.native_transaction.status = st].state_epoch = r.state_epoch
             /\ [r EXCEPT !.native_transaction.status = st].discovery = r.discovery
             /\ [r EXCEPT !.native_transaction.status = st].reboot_required = r.reboot_required
  <2> DEFINE nt == [r.native_transaction EXCEPT !.status = st]
  <2>1. nt \in NativeTransaction
    <3> DEFINE old == r.native_transaction
    <3>1. old \in NativeTransaction
      BY DEF Receipt
    <3> HIDE DEF old
    <3> QED BY <3>1 DEF NativeTransaction, old
  <2>2. [r EXCEPT !.native_transaction.status = st] = [r EXCEPT !.native_transaction = nt]
    OBVIOUS
  <2> HIDE DEF nt
  <2> QED BY <2>1, <2>2 DEF Receipt
<1>4. CASE ExternalRunning
  <2>1. CASE NativeFailed
    BY <1>1, <1>2, <1>4, <2>1, NativeFailureKeeps DEF ExternalRunning
  <2>2. CASE WriteThen([mem EXCEPT !.native_transaction.status = "RUNNING_VERIFIED"], "native")
    <3> DEFINE q == [mem EXCEPT !.native_transaction.status = "RUNNING_VERIFIED"]
    <3>1. /\ q \in Receipt /\ q.stages = mem.stages /\ q.state_epoch = mem.state_epoch
          /\ q.discovery = mem.discovery /\ q.reboot_required = mem.reboot_required
      BY <1>1, <1>3
    <3>2. WriteThen(q, "native") /\ Quiet
      BY <1>4, <2>2 DEF ExternalRunning
    <3> HIDE DEF q
    <3>3. InOrder(q) => Sound(q)
      BY <1>1, <3>1, TransactionSound
    <3> QED BY <1>1, <1>2, <3>1, <3>2, <3>3, WriteThenKeeps DEF Label
  <2> QED BY <1>4, <2>1, <2>2 DEF ExternalRunning
<1>5. CASE ExternalSave
  BY <1>1, <1>2, <1>5, WriteAndStopKeeps DEF ExternalSave, Handoff, Outcome, Handoffs
<1>6. CASE ExternalSaved
  <2>1. CASE NativeFailed
    BY <1>1, <1>2, <1>6, <2>1, NativeFailureKeeps DEF ExternalSaved
  <2>2. CASE WriteThen(ExternalNativeReceipt, "dns")
    <3> DEFINE done == MarkStages(mem, {native_proxy_policy_transaction}, "PASS")
               with == [done EXCEPT !.native_transaction.status = "PASS"]
               q == ExternalNativeReceipt
    <3>1. done \in Receipt
      <4>1. {native_proxy_policy_transaction} \in SUBSET Stage /\ "PASS" \in Status
        BY StageNumbers DEF Status
      <4> QED BY <1>1, <4>1, MarkStagesFields
    <3>2. /\ done.state_epoch = mem.state_epoch /\ done.discovery = mem.discovery
          /\ done.reboot_required = mem.reboot_required
      BY <1>1 DEF MarkStages, Receipt
    <3>3. q = Verified(with, {"native_routing"})
      BY DEF ExternalNativeReceipt
    <3> HIDE DEF done, q
    <3>4. /\ with \in Receipt /\ with.stages = done.stages /\ with.state_epoch = done.state_epoch
          /\ with.discovery = done.discovery /\ with.reboot_required = done.reboot_required
      BY <1>3, <3>1
    <3> HIDE DEF with
    <3>5. /\ q \in Receipt /\ q.stages = with.stages /\ q.state_epoch = with.state_epoch
          /\ q.discovery = with.discovery /\ q.reboot_required = with.reboot_required
      BY <3>3, <3>4 DEF Verified, Receipt, FinalArea
    <3>6. InOrder(q) => Sound(q)
      BY <1>1, <3>2, <3>4, <3>5, NativeRecordSound DEF done
    <3> QED BY <1>1, <1>2, <1>6, <2>2, <3>2, <3>4, <3>5, <3>6, WriteThenKeeps
            DEF ExternalSaved, Label, q
  <2> QED BY <1>6, <2>1, <2>2 DEF ExternalSaved
<1> QED BY <1>4, <1>5, <1>6

-----------------------------------------------------------------------------
(* DNS gate, client acceptance, final result *)

(* The last stages are recorded one at a time, DNS only after the epoch of *)
(* a native write.                                                         *)
LEMMA LateRecordSound ==
  ASSUME NEW r \in Receipt, Sound(r),
         NEW s \in {protected_dns_gate, selected_client_acceptance, final_result},
         ~StageDone(r, s) \/ s = final_result,
         s = protected_dns_gate /\ r.native_transaction.write_required =>
           r.native_transaction.pre_epoch < r.state_epoch,
         NEW q \in Receipt, InOrder(q), q.stages = MarkStages(r, {s}, "PASS").stages,
         q.state_epoch = r.state_epoch, q.discovery = r.discovery,
         q.native_transaction = r.native_transaction, q.reboot_required = r.reboot_required
  PROVE  Sound(q)
<1>1. {s} \in SUBSET Stage /\ "PASS" \in Status /\ s \in Stage
  BY StageNumbers DEF Status
<1>2. \A t \in Stage : q.stages[t] =
        IF t \in {s} THEN [status |-> "PASS", epoch |-> r.state_epoch] ELSE r.stages[t]
  BY <1>1, MarkStagesFields
<1>3. \A t \in Stage : s < t => ~StageDone(r, t)
  BY <1>1, StageNumbers DEF Sound, InOrder
<1>4. \A t \in Stage \ {s} : s < t => ~StageDone(q, t)
  BY <1>2, <1>3 DEF StageDone
<1>5. controlled_reboot \notin {s} /\ post_reboot_proof \notin {s}
  BY StageNumbers
<1>6. Recording(r, q, {s})
  BY <1>1, <1>2, <1>4, <1>5 DEF Recording
<1> QED BY <1>1, <1>6, RecordingSound

(* The steps from the DNS gate on keep the inductive invariant.            *)
LEMMA AcceptanceKeeps ==
  ASSUME Inductive, Acceptance
  PROVE  Inductive'
<1>1. /\ pc \in {"dns", "client", "final"} /\ pc # "idle" /\ mem = disk
      /\ mem \in Receipt /\ Sound(mem) /\ run \in Run /\ WorldTyped
      /\ Evident => mem.discovery = run.evidence
      /\ manifest # NoManifest
  BY RunHoldsReceipt DEF Acceptance, PassDns, DnsHandoff, RecordDns, ClientStage, FinalResult,
     DnsOpen, Inductive, Label, Owner, Located
<1>2. Quiet => WorldTyped' /\ manifest' = manifest /\ packet' = packet
  BY <1>1 DEF Quiet, world, WorldTyped
<1>3. ASSUME NEW s \in {protected_dns_gate, selected_client_acceptance, final_result}
      PROVE  /\ MarkStages(mem, {s}, "PASS") \in Receipt
             /\ MarkStages(mem, {s}, "PASS").state_epoch = mem.state_epoch
             /\ MarkStages(mem, {s}, "PASS").discovery = mem.discovery
             /\ MarkStages(mem, {s}, "PASS").native_transaction = mem.native_transaction
             /\ MarkStages(mem, {s}, "PASS").reboot_required = mem.reboot_required
  <2>1. {s} \in SUBSET Stage /\ "PASS" \in Status
    BY StageNumbers DEF Status
  <2>2. MarkStages(mem, {s}, "PASS") \in Receipt
    BY <1>1, <2>1, MarkStagesFields
  <2> QED BY <1>1, <2>2 DEF MarkStages, Receipt
<1>4. CASE PassDns
  BY <1>1, <1>2, <1>4, GoOnKeeps DEF PassDns, Label, Owner
<1>5. CASE DnsHandoff
  BY <1>1, <1>2, <1>5, WriteAndStopKeeps DEF DnsHandoff, Handoff, Outcome, Handoffs
<1>6. CASE RecordDns
  <2> DEFINE done == MarkStages(mem, {protected_dns_gate}, "PASS")
             gated == [done EXCEPT !.dns_gate_status = "PASS"]
             q == DnsReceipt
  <2>1. /\ done \in Receipt /\ done.state_epoch = mem.state_epoch
        /\ done.discovery = mem.discovery
        /\ done.native_transaction = mem.native_transaction
        /\ done.reboot_required = mem.reboot_required
    BY <1>3
  <2>2. q = Verified(gated, {"dns"})
    BY DEF DnsReceipt
  <2> HIDE DEF done, q
  <2>3. /\ gated \in Receipt /\ gated.stages = done.stages
        /\ gated.state_epoch = done.state_epoch /\ gated.discovery = done.discovery
        /\ gated.native_transaction = done.native_transaction
        /\ gated.reboot_required = done.reboot_required
    BY <2>1 DEF Receipt
  <2> HIDE DEF gated
  <2>4. /\ q \in Receipt /\ q.stages = gated.stages
        /\ q.state_epoch = gated.state_epoch /\ q.discovery = gated.discovery
        /\ q.native_transaction = gated.native_transaction
        /\ q.reboot_required = gated.reboot_required
    BY <2>2, <2>3 DEF Verified, Receipt, FinalArea
  <2>5. mem.native_transaction.write_required =>
          mem.native_transaction.pre_epoch < mem.state_epoch
    <3>1. run.evidence.epoch = mem.state_epoch
      BY <1>1, <1>6 DEF RecordDns, Evident, Sound, Current
    <3>2. mem.state_epoch \in Int /\ mem.native_transaction.pre_epoch \in Int
      BY <1>1 DEF Receipt, NativeTransaction, Epoch, NoEpoch
    <3> QED BY <1>6, <3>1, <3>2 DEF RecordDns, PredatesNative
  <2>6. InOrder(q) => Sound(q)
    BY <1>1, <1>6, <2>1, <2>3, <2>4, <2>5, LateRecordSound DEF RecordDns, DnsOpen, done
  <2> QED BY <1>1, <1>2, <1>6, <2>1, <2>3, <2>4, <2>6, WriteThenKeeps DEF RecordDns, Label, q
<1>7. CASE ClientStage
  <2>1. CASE GoOn("final")
    BY <1>1, <1>2, <1>7, <2>1, GoOnKeeps DEF ClientStage, Label, Owner
  <2>2. CASE Handoff("CLIENT_FUNCTIONAL_VERIFICATION_REQUIRED")
    BY <1>1, <1>2, <1>7, <2>2, WriteAndStopKeeps DEF ClientStage, Handoff, Outcome, Handoffs
  <2>3. CASE /\ ~StageDone(mem, selected_client_acceptance)
             /\ WriteThen(Verified(MarkStages(mem, {selected_client_acceptance}, "PASS"),
                                   {"client_domain_https"}), "final")
    <3> DEFINE done == MarkStages(mem, {selected_client_acceptance}, "PASS")
               q == Verified(done, {"client_domain_https"})
    <3>1. /\ done \in Receipt /\ done.state_epoch = mem.state_epoch
          /\ done.discovery = mem.discovery
          /\ done.native_transaction = mem.native_transaction
          /\ done.reboot_required = mem.reboot_required
      BY <1>3
    <3>2. WriteThen(q, "final") /\ Quiet
      BY <1>7, <2>3 DEF ClientStage
    <3> HIDE DEF done
    <3>3. /\ q \in Receipt /\ q.stages = done.stages
          /\ q.state_epoch = done.state_epoch /\ q.discovery = done.discovery
          /\ q.native_transaction = done.native_transaction
          /\ q.reboot_required = done.reboot_required
      BY <3>1 DEF Verified, Receipt, FinalArea
    <3> HIDE DEF q
    <3>4. InOrder(q) => Sound(q)
      BY <1>1, <2>3, <3>1, <3>3, LateRecordSound, StageNumbers DEF done
    <3> QED BY <1>1, <1>2, <3>1, <3>2, <3>3, <3>4, WriteThenKeeps DEF Label
  <2> QED BY <1>7, <2>1, <2>2, <2>3 DEF ClientStage
<1>8. CASE FinalResult
  <2> DEFINE q == MarkStages(mem, {final_result}, "PASS")
  <2>1. /\ q \in Receipt /\ q.state_epoch = mem.state_epoch /\ q.discovery = mem.discovery
        /\ q.native_transaction = mem.native_transaction
        /\ q.reboot_required = mem.reboot_required
    BY <1>3
  <2>2. InOrder(q) => Sound(q)
    BY <1>1, <2>1, LateRecordSound, StageNumbers
  <2>3. WriteAndStop(q, "complete") /\ Quiet
    BY <1>8 DEF FinalResult
  <2> HIDE DEF q
  <2> QED BY <1>1, <1>2, <2>1, <2>2, <2>3, WriteAndStopKeeps DEF Outcome
<1> QED BY <1>4, <1>5, <1>6, <1>7, <1>8 DEF Acceptance

-----------------------------------------------------------------------------
(* The operator *)

(* The receipt apply starts with is sound and one write_receipt accepts.   *)
LEMMA InitialReceiptSound ==
  ASSUME NEW authorize \in BOOLEAN
  PROVE  /\ InitialReceipt(authorize) \in Receipt
         /\ Sound(InitialReceipt(authorize)) /\ Writable(InitialReceipt(authorize))
<1> DEFINE r == InitialReceipt(authorize)
<1>1. r \in Receipt
  <2>1. Pending \in [status : Status, epoch : Epoch]
    BY DEF Pending, Status, Epoch, NoEpoch
  <2>2. EmptyNativeTransaction \in NativeTransaction
    BY DEF EmptyNativeTransaction, NativeTransaction, Epoch, NoEpoch
  <2>3. [s \in Stage |-> Pending] \in [Stage -> [status : Status, epoch : Epoch]]
    BY <2>1
  <2> DEFINE st == [s \in Stage |-> Pending]
  <2> HIDE DEF st
  <2>4. r \in Receipt
    BY <2>2, <2>3 DEF InitialReceipt, Receipt, Epoch, NoEpoch, Disposition, st
  <2> QED BY <2>4
<1>2. \A s \in Stage : ~StageDone(r, s) /\ r.stages[s].status = "PENDING"
  BY DEF InitialReceipt, StageDone, Pending
<1>3. /\ r.state_epoch = 0 /\ r.discovery = NoEvidence /\ r.runtime_disposition = "PENDING"
      /\ r.native_transaction.status = "PENDING" /\ r.dns_gate_status = "PENDING"
      /\ r.final_verification = {}
  BY DEF InitialReceipt, EmptyNativeTransaction
<1> HIDE DEF r
<1>4. DerivedFinal(r) = {}
  <2>1. /\ ~AllDone(r, INSTALLATION_STAGES) /\ ~StageDone(r, healthcheck)
        /\ ~StageDone(r, autostart) /\ ~StageDone(r, native_proxy_policy_transaction)
        /\ ~StageDone(r, protected_dns_gate) /\ ~StageDone(r, selected_client_acceptance)
    BY <1>2, StageNumbers DEF AllDone
  <2> QED BY <2>1 DEF DerivedFinal
<1>5. Sound(r)
  BY <1>2, <1>3, StageNumbers
     DEF Sound, InOrder, Dated, EpochsGrow, Current, Fresh, DnsLate, Proven
<1>6. InOrder(r) /\ ~AllDone(r, INSTALLATION_STAGES)
  BY <1>2, StageNumbers DEF InOrder, AllDone
<1>7. DispositionValid(r, RuntimeMode, Adopt)
  BY <1>3, <1>6 DEF DispositionValid
<1>8. Writable(r)
  BY <1>2, <1>3, <1>4, <1>6, <1>7, StageNumbers DEF Writable, Valid
<1> QED BY <1>1, <1>5, <1>8 DEF r

(* Widening the authority of a receipt changes nothing else in it.         *)
LEMMA AuthorizedReceiptSound ==
  ASSUME NEW r \in Receipt, Sound(r), Writable(r), NEW authorize \in BOOLEAN
  PROVE  LET q == [r EXCEPT !.reboot_authorized = @ \/ authorize]
         IN  q \in Receipt /\ Sound(q) /\ Writable(q)
<1> DEFINE a == r.reboot_authorized \/ authorize
           q == [r EXCEPT !.reboot_authorized = a]
<1>1. a \in BOOLEAN
  BY DEF Receipt
<1> HIDE DEF a
<1>2. /\ q \in Receipt
      /\ q.stages = r.stages /\ q.state_epoch = r.state_epoch /\ q.discovery = r.discovery
      /\ q.runtime_disposition = r.runtime_disposition
      /\ q.runtime_evidence = r.runtime_evidence
      /\ q.endpoint_manifest = r.endpoint_manifest
      /\ q.reboot_required = r.reboot_required
      /\ q.completed_reboot_epoch = r.completed_reboot_epoch
      /\ q.native_transaction = r.native_transaction
      /\ q.dns_gate_status = r.dns_gate_status
      /\ q.final_verification = r.final_verification
  BY <1>1 DEF Receipt
<1> HIDE DEF q
<1>3. \A s \in Stage : StageDone(q, s) <=> StageDone(r, s)
  BY <1>2 DEF StageDone
<1>4. Sound(q)
  <2>1. InOrder(q) /\ Dated(q) /\ EpochsGrow(q)
    BY <1>2, <1>3 DEF Sound, InOrder, Dated, EpochsGrow
  <2>2. Current(q)
    BY <1>2 DEF Sound, Current
  <2>3. Fresh(q)
    BY <1>2, <1>3 DEF Sound, Fresh, ExpectedRefresh
  <2>4. DnsLate(q) /\ Proven(q)
    BY <1>2, <1>3, StageNumbers DEF Sound, DnsLate, Proven
  <2> QED BY <2>1, <2>2, <2>3, <2>4 DEF Sound
<1>5. Writable(q)
  <2>1. \A S \in SUBSET Stage : AllDone(q, S) <=> AllDone(r, S)
    BY <1>3 DEF AllDone
  <2>2. DerivedFinal(q) = DerivedFinal(r)
    BY <1>3, <2>1, StageNumbers DEF DerivedFinal
  <2>3. DispositionValid(q, RuntimeMode, Adopt)
    BY <1>2, <2>1, StageNumbers DEF Writable, Valid, DispositionValid
  <2> QED BY <1>2, <1>3, <1>4, <2>2, <2>3, StageNumbers DEF Writable, Valid, Sound
<1> QED BY <1>2, <1>4, <1>5 DEF q, a

(* Commands, deliveries and changes of files keep the inductive invariant. *)
LEMMA OperatorKeeps ==
  ASSUME Inductive, Operator
  PROVE  Inductive'
<1>1. /\ pc = "idle" /\ mem = NoReceipt /\ run \in Run /\ result = "none" /\ WorldTyped
  BY DEF Operator, Command, Apply, Resume, Deliver, SaveConfiguration, RemovePacket, LosePacket,
     RestorePacket, RestoreManifest, ExportManifest, ReplaceManifest, Idle, Inductive, TypeOK, WorldTyped
<1>2. ASSUME NEW mode \in {"apply", "resume"}, NEW ev \in Evidence \cup {NoEvidence},
             NEW snaps \in Supplied, NEW r \in Receipt, Sound(r), Writable(r),
             Begin(mode, ev, snaps, r)
      PROVE  Inductive'
  <2>1. /\ disk' = r /\ mem' = r /\ pc' = FirstLabel /\ outcome' = "running"
        /\ run' = [mode |-> mode, evidence |-> ev, snapshots |-> snaps]
        /\ result' = "none" /\ packet' = packet /\ manifest' = manifest
    BY <1>1, <1>2 DEF Begin, world
  <2>2. run' \in Run
    BY <2>1, <1>2, ModeAssumption DEF Run, Snapshot
  <2>3. FirstLabel \in {"preflight", "runtime"}
        /\ (FirstLabel = "runtime" => RuntimeMode = "external-evidence")
    BY ModeAssumption DEF FirstLabel
  <2>4. WorldTyped'
    BY <1>1, <1>2 DEF Begin, world, WorldTyped
  <2>5. TypeOK'
    BY <2>1, <2>2, <2>3, <2>4, ModeAssumption
       DEF TypeOK, WorldTyped, Label, Owner, Outcome, Result
  <2>6. (disk # NoReceipt => Sound(disk) /\ Writable(disk))'
    BY <1>2, <2>1
  <2> QED BY <1>2, <2>1, ModeAssumption, <2>3, <2>5, <2>6 DEF Inductive, InStep
<1>3. ASSUME NEW ev \in Evidence \cup {NoEvidence}, NEW snaps \in Supplied,
             NEW authorize \in BOOLEAN, Apply(ev, snaps, authorize)
      PROVE  Inductive'
  BY <1>2, <1>3, InitialReceiptSound DEF Apply
<1>4. ASSUME NEW ev \in Evidence \cup {NoEvidence}, NEW snaps \in Supplied,
             NEW authorize \in BOOLEAN, Resume(ev, snaps, authorize)
      PROVE  Inductive'
  <2>1. disk \in Receipt /\ Sound(disk) /\ Writable(disk)
    BY <1>4 DEF Resume, Inductive, TypeOK
  <2> QED BY <1>2, <1>4, <2>1, AuthorizedReceiptSound DEF Resume
<1>5. ASSUME UNCHANGED <<disk, mem, pc, run, result, outcome, ran>>, WorldTyped'
      PROVE  Inductive'
  <2>1. TypeOK'
    BY <1>5 DEF Inductive, TypeOK, WorldTyped
  <2>2. (disk # NoReceipt => Sound(disk) /\ Writable(disk))'
    <3>1. Sound(disk)' = Sound(disk) /\ Writable(disk)' = Writable(disk)
      BY <1>5
    <3> QED BY <1>5, <3>1 DEF Inductive
  <2> QED BY <1>1, <1>5, <2>1, <2>2, ModeAssumption DEF Inductive, InStep, Owner
<1>6. ASSUME Idle
      PROVE  UNCHANGED <<disk, mem, pc, run, result, outcome, ran>> /\ ran' \in [Owner -> Epoch]
  BY <1>1, <1>6 DEF Idle, WorldTyped
<1>7. /\ disk \in Receipt \cup {NoReceipt} /\ packet \in Packet \cup {NoPacket}
      /\ manifest \in Manifest \cup {NoManifest}
      /\ router \in [running : Manifest \cup {NoManifest}, startup : Manifest \cup {NoManifest}]
      /\ faults \in Nat
  BY <1>1 DEF WorldTyped, Inductive, TypeOK
<1>8. CASE Deliver
  <2>1. packet \in Packet /\ disk \in Receipt
    BY <1>7, <1>8 DEF Deliver, Inductive
  <2> QED BY <1>5, <1>6, <1>7, <1>8, <2>1 DEF Deliver, Calm, WorldTyped, Packet
<1>9. CASE SaveConfiguration
  BY <1>5, <1>6, <1>7, <1>9 DEF SaveConfiguration, Calm, WorldTyped
<1>10. CASE RemovePacket
  BY <1>5, <1>6, <1>7, <1>10 DEF RemovePacket, Calm, WorldTyped
<1>11. CASE RestoreManifest
  BY <1>5, <1>6, <1>7, <1>11 DEF RestoreManifest, Calm, WorldTyped, Receipt
<1>12. ASSUME NEW m \in Manifest, ExportManifest(m)
       PROVE  Inductive'
  BY <1>5, <1>6, <1>7, <1>12 DEF ExportManifest, Calm, WorldTyped
<1>13. ASSUME NEW m \in Manifest \cup {NoManifest}, ReplaceManifest(m)
       PROVE  Inductive'
  BY <1>5, <1>6, <1>7, <1>13, ModeAssumption DEF ReplaceManifest, Fault, WorldTyped
<1>14. CASE LosePacket
  BY <1>5, <1>6, <1>7, <1>14, ModeAssumption DEF LosePacket, Fault, WorldTyped
<1>15. CASE RestorePacket
  <2>1. packet' \in Packet
    BY <1>7, <1>15 DEF RestorePacket, Receipt, NativeTransaction
  <2> QED BY <1>5, <1>6, <1>7, <1>15, <2>1 DEF RestorePacket, Calm, WorldTyped
<1> QED
  BY <1>3, <1>4, <1>8, <1>9, <1>10, <1>11, <1>12, <1>13, <1>14, <1>15 DEF Operator, Command

-----------------------------------------------------------------------------
(* The theorems *)

(* Wherever the program is, killed runs and every operator included, what  *)
(* a receipt says is sound and the run is at most one document ahead.      *)
THEOREM InductiveInvariant == Spec => []Inductive
<1>1. Init => Inductive
  <2> SUFFICES ASSUME Init PROVE Inductive
    OBVIOUS
  <2>1. TypeOK
    BY DEF Init, TypeOK, NoRun, Run, Label, Result, Outcome, Epoch, NoEpoch
  <2> QED BY <2>1 DEF Init, Inductive, InStep, Owner
<1>2. Inductive /\ [Next]_vars => Inductive'
  <2> SUFFICES ASSUME Inductive, [Next]_vars PROVE Inductive'
    OBVIOUS
  <2>1. CASE Installation
    BY <2>1, InstallationKeeps
  <2>2. CASE ComponentAndReboot
    BY <2>2, ComponentKeeps, RebootKeeps DEF ComponentAndReboot
  <2>3. CASE NativeTransactionStage
    BY <2>3, LocalNativeKeeps, ExternalPlanKeeps, ExternalVerifyKeeps
       DEF NativeTransactionStage
  <2>4. CASE Acceptance
    BY <2>4, AcceptanceKeeps
  <2>5. CASE Operator
    BY <2>5, OperatorKeeps
  <2>6. CASE Kill
    <3>1. WorldTyped'
      BY <2>6, ModeAssumption DEF Kill, Fault, world, WorldTyped, Inductive, TypeOK
    <3> QED BY <2>6, <3>1, StopKeeps DEF Kill, Outcome
  <2>7. CASE UNCHANGED vars
    <3>1. Sound(disk)' = Sound(disk) /\ Writable(disk)' = Writable(disk)
      BY <2>7 DEF vars
    <3>2. TypeOK'
      BY <2>7 DEF vars, Inductive, TypeOK
    <3> QED BY <2>7, <3>1, <3>2 DEF vars, Inductive, InStep, Evident
  <2> QED BY <2>1, <2>2, <2>3, <2>4, <2>5, <2>6, <2>7 DEF Next, Process
<1> QED BY <1>1, <1>2, PTL DEF Spec

(* Every variable keeps its type through every command and every fault.    *)
THEOREM TypeCorrect == Spec => []TypeOK
<1>1. Inductive => TypeOK
  BY DEF Inductive
<1> QED BY <1>1, InductiveInvariant, PTL

(* No order of evidence, failures and kills makes the receipt credit a     *)
(* stage to an earlier epoch than a stage it builds on.                    *)
THEOREM EpochsOrdered == Spec => []StageEpochsOrdered
<1>1. Inductive => StageEpochsOrdered
  <2> SUFFICES ASSUME Inductive, NEW s \in Stage, NEW t \in Stage, s <= t, OnDisk(t)
               PROVE  /\ 0 <= disk.stages[s].epoch
                      /\ disk.stages[s].epoch <= disk.stages[t].epoch
                      /\ disk.stages[t].epoch <= disk.state_epoch
    BY DEF StageEpochsOrdered
  <2>1. Sound(disk) /\ StageDone(disk, t)
    BY DEF Inductive, OnDisk
  <2>2. StageDone(disk, s)
    BY <2>1, StageNumbers DEF Sound, InOrder
  <2> QED BY <2>1, <2>2 DEF Sound, Dated, EpochsGrow
<1> QED BY <1>1, InductiveInvariant, PTL

(* Accepted evidence of a state change leaves no stage standing that the   *)
(* change invalidates, except the native write that asked for it.          *)
THEOREM StaleStagesReopened == Spec => []NoStaleStage
<1>1. Inductive => NoStaleStage
  BY DEF Inductive, NoStaleStage, OnDisk, Sound, Fresh
<1> QED BY <1>1, InductiveInvariant, PTL

(* No epoch is entered without evidence for it.                            *)
THEOREM DiscoveryCurrent == Spec => []DiscoveryIsCurrent
<1>1. Inductive => DiscoveryIsCurrent
  BY DEF Inductive, DiscoveryIsCurrent, Sound, Current
<1> QED BY <1>1, InductiveInvariant, PTL

(* A controlled reboot is never on record without its proof.               *)
THEOREM RebootsProven == Spec => []RebootProven
<1>1. Inductive => RebootProven
  BY DEF Inductive, RebootProven, OnDisk, Sound, Proven
<1> QED BY <1>1, InductiveInvariant, PTL

(* DNS never passes on evidence of the epoch of a recorded native write or *)
(* of an earlier one.                                                      *)
THEOREM DnsPassesLate == Spec => []DnsAfterNative
<1>1. Inductive => DnsAfterNative
  BY DEF Inductive, DnsAfterNative, OnDisk, Sound, DnsLate
<1> QED BY <1>1, InductiveInvariant, PTL

-----------------------------------------------------------------------------
(* What the world shows of the receipt *)

(* Every owner's stage that r credits was carried out in the epoch that r  *)
(* gives it.                                                               *)
Credited(r) == \A o \in Owner : StageDone(r, Gate(o)) => ran[o] = r.stages[Gate(o)].epoch

(* What r says of the native transaction is true of the router.            *)
NativeTrue(r) ==
  /\ r.native_transaction.status # "PENDING" => StageDone(r, post_reboot_proof)
  /\ r.native_transaction.status \in {"RUNNING_VERIFIED", "PASS"} =>
       router.running = r.endpoint_manifest
  /\ r.native_transaction.status = "PASS" /\ r.native_transaction.write_required =>
       router.startup = r.endpoint_manifest
  /\ Transport = "local-ndmc" => r.native_transaction.status \in {"PENDING", "PASS"}
  /\ r.stages[native_proxy_policy_transaction].status # "SKIPPED"

(* What r says of the owners and of the router is so.                      *)
True(r) == NativeTrue(r) /\ (RuntimeMode = "local-router" => Credited(r))

(* A subprocess that the receipt does not know of yet is one of the stage  *)
(* the run is at, and did what its result says.                            *)
Reported ==
  /\ result # "none" =>
       pc \in Owner \/ (pc = "native" /\ ~StageDone(mem, native_proxy_policy_transaction))
  /\ RuntimeMode = "local-router" /\ pc \in Owner /\ result = "ok" => ran[pc] = mem.state_epoch
  /\ pc = "native" => StageDone(mem, post_reboot_proof)
  /\ pc = "native" /\ result \in {"noop", "writing", "wrote"} => router.running = manifest
  /\ pc = "native" /\ result = "wrote" => router.startup = manifest

(* The operator is asked for a change of the router only where the receipt *)
(* on disk expects it.                                                     *)
Asked ==
  /\ outcome = "EXTERNAL_NATIVE_TRANSACTION_DELIVERY_REQUIRED" =>
       pc = "idle" /\ disk # NoReceipt /\ disk.native_transaction.status = "PLANNED"
  /\ outcome = "EXTERNAL_NATIVE_SAVE_REQUIRED" =>
       pc = "idle" /\ disk # NoReceipt /\ disk.native_transaction.status = "RUNNING_VERIFIED"

(* The manifest that a run works with is the one its receipt has locked.   *)
Locked ==
  pc \in Located /\ StageDone(mem, strict_plan) => manifest = mem.endpoint_manifest

(* The receipt on disk is true, and a run and an operator know what it says*)
(* and no more.                                                            *)
Truthful ==
  /\ disk # NoReceipt => True(disk)
  /\ Reported /\ Asked /\ Locked

(* Handoffs that ask the operator to change the router.                    *)
Asking == {"EXTERNAL_NATIVE_TRANSACTION_DELIVERY_REQUIRED", "EXTERNAL_NATIVE_SAVE_REQUIRED"}

-----------------------------------------------------------------------------
(* Receipts that claim no more than another *)

(* Whatever q says of the installation and of the router, r says too.      *)
Kept(r, q) ==
  /\ \A s \in INSTALLATION_STAGES : StageDone(q, s) => q.stages[s] = r.stages[s]
  /\ StageDone(q, strict_plan) => q.endpoint_manifest = r.endpoint_manifest
  /\ \/ q.native_transaction = EmptyNativeTransaction
     \/ /\ q.native_transaction = r.native_transaction
        /\ StageDone(r, post_reboot_proof) => StageDone(q, post_reboot_proof)
  /\ q.stages[native_proxy_policy_transaction].status = "SKIPPED" =>
       r.stages[native_proxy_policy_transaction].status = "SKIPPED"

(* A receipt claims no more than itself.                                   *)
LEMMA KeptSelf ==
  ASSUME NEW r
  PROVE  Kept(r, r)
BY DEF Kept

(* Claiming no more is transitive.                                         *)
LEMMA KeptChain ==
  ASSUME NEW r, NEW q, NEW p, Kept(r, q), Kept(q, p)
  PROVE  Kept(r, p)
<1>1. \A s \in INSTALLATION_STAGES : StageDone(p, s) =>
        p.stages[s] = q.stages[s] /\ StageDone(q, s)
  BY DEF Kept, StageDone
<1>2. strict_plan \in INSTALLATION_STAGES
  BY StageNumbers
<1> QED BY <1>1, <1>2 DEF Kept

(* Marking stages past the installation, or recording a failure, claims    *)
(* nothing new of the installation or the router.                          *)
LEMMA KeptMark ==
  ASSUME NEW r \in Receipt, NEW S \in SUBSET Stage, NEW status \in Status, NEW q,
         q.stages = MarkStages(r, S, status).stages,
         q.native_transaction = r.native_transaction,
         q.endpoint_manifest = r.endpoint_manifest,
         S \cap INSTALLATION_STAGES = {} \/ status = "FAIL",
         post_reboot_proof \in S => status \in {"PASS", "SKIPPED"},
         native_proxy_policy_transaction \in S => status # "SKIPPED"
  PROVE  Kept(r, q)
<1>1. \A s \in Stage : q.stages[s] =
        IF s \in S THEN [status |-> status, epoch |-> r.state_epoch] ELSE r.stages[s]
  BY MarkStagesFields
<1>2. \A s \in Stage : StageDone(q, s) <=>
        IF s \in S THEN status \in {"PASS", "SKIPPED"} ELSE StageDone(r, s)
  BY <1>1 DEF StageDone
<1>3. /\ INSTALLATION_STAGES \in SUBSET Stage /\ post_reboot_proof \in Stage
      /\ native_proxy_policy_transaction \in Stage
  BY StageNumbers
<1>4. \A s \in INSTALLATION_STAGES : StageDone(q, s) => q.stages[s] = r.stages[s]
  BY <1>1, <1>2, <1>3
<1>5. StageDone(r, post_reboot_proof) => StageDone(q, post_reboot_proof)
  BY <1>2, <1>3
<1>6. q.stages[native_proxy_policy_transaction].status = "SKIPPED" =>
        r.stages[native_proxy_policy_transaction].status = "SKIPPED"
  BY <1>1, <1>3
<1> QED BY <1>4, <1>5, <1>6 DEF Kept

(* Accepting evidence only takes claims back.                              *)
LEMMA KeptAccepted ==
  ASSUME NEW r \in Receipt, Sound(r), NEW ev \in Evidence, Acceptable(r, ev)
  PROVE  Kept(r, Accepted(r, ev))
<1>1. CASE Known(r, ev)
  BY <1>1, KeptSelf DEF Accepted
<1>2. CASE ~Known(r, ev)
  <2> DEFINE q == Accepted(r, ev)
  <2>1. PICK cut \in 1..18 :
          /\ \A s \in Stage : q.stages[s] = IF s >= cut THEN Pending ELSE r.stages[s]
          /\ q.native_transaction =
               IF cut <= native_proxy_policy_transaction THEN EmptyNativeTransaction
               ELSE r.native_transaction
          /\ q.endpoint_manifest = r.endpoint_manifest \/ cut <= generate
    BY <1>2, AcceptedCut
  <2> HIDE DEF q
  <2>2. \A s \in Stage : s >= cut => ~StageDone(q, s) /\ q.stages[s].status = "PENDING"
    BY <2>1 DEF StageDone, Pending
  <2>3. \A s \in Stage : ~(s >= cut) => q.stages[s] = r.stages[s]
    BY <2>1
  <2>4. \A s \in Stage : ~(s >= cut) /\ StageDone(r, s) => StageDone(q, s)
    BY <2>3 DEF StageDone
  <2>5. StageDone(q, strict_plan) => q.endpoint_manifest = r.endpoint_manifest
    BY <2>1, <2>2, StageNumbers
  <2>6. \/ q.native_transaction = EmptyNativeTransaction
        \/ /\ q.native_transaction = r.native_transaction
           /\ StageDone(r, post_reboot_proof) => StageDone(q, post_reboot_proof)
    <3>1. CASE cut <= native_proxy_policy_transaction
      BY <2>1, <3>1
    <3>2. CASE ~(cut <= native_proxy_policy_transaction)
      <4>1. post_reboot_proof \in Stage /\ ~(post_reboot_proof >= cut)
        BY <3>2, StageNumbers
      <4> QED BY <2>1, <2>4, <3>2, <4>1
    <3> QED BY <3>1, <3>2
  <2>7. \A s \in INSTALLATION_STAGES : StageDone(q, s) => q.stages[s] = r.stages[s]
    BY <2>2, <2>3, StageNumbers
  <2>8. q.stages[native_proxy_policy_transaction].status = "SKIPPED" =>
          r.stages[native_proxy_policy_transaction].status = "SKIPPED"
    BY <2>2, <2>3, StageNumbers
  <2>9. Kept(r, q)
    BY <2>5, <2>6, <2>7, <2>8 DEF Kept
  <2> QED BY <2>9 DEF q
<1> QED BY <1>1, <1>2

(* What a run holds claims no more than the receipt on disk.               *)
LEMMA KeptInMemory ==
  ASSUME Inductive, pc # "idle"
  PROVE  Kept(disk, mem) /\ mem \in Receipt /\ disk \in Receipt /\ disk # NoReceipt
         /\ Sound(mem) /\ Sound(disk)
<1>1. /\ mem \in Receipt /\ Sound(mem) /\ disk \in Receipt /\ Sound(disk) /\ run \in Run
  BY RunHoldsReceipt
<1>2. mem # NoReceipt /\ disk # NoReceipt
  BY <1>1, ModeAssumption
<1>3. CASE mem = disk
  BY <1>1, <1>2, <1>3, KeptSelf
<1>4. CASE /\ Evident /\ Acceptable(disk, run.evidence)
           /\ mem = Accepted(disk, run.evidence)
  <2>1. run.evidence \in Evidence
    BY <1>1, <1>4 DEF Run, Evident
  <2> QED BY <1>1, <1>2, <1>4, <2>1, KeptAccepted
<1> QED BY <1>2, <1>3, <1>4 DEF Inductive, InStep

(* A receipt that claims no more than a true one is true.                  *)
LEMMA KeptTrue ==
  ASSUME NEW r, NEW q, True(r), Kept(r, q), InOrder(q)
  PROVE  True(q)
<1>1. /\ post_reboot_proof \in Stage /\ strict_plan \in Stage /\ strict_plan < post_reboot_proof
      /\ EmptyNativeTransaction.status = "PENDING"
  BY StageNumbers DEF EmptyNativeTransaction
<1>2. StageDone(q, post_reboot_proof) => StageDone(q, strict_plan)
  BY <1>1 DEF InOrder
<1>3. NativeTrue(q)
  BY <1>1, <1>2 DEF Kept, True, NativeTrue
<1>4. Credited(r) => Credited(q)
  <2> SUFFICES ASSUME Credited(r), NEW o \in Owner, StageDone(q, Gate(o))
               PROVE  ran[o] = q.stages[Gate(o)].epoch
    BY DEF Credited
  <2>1. Gate(o) \in INSTALLATION_STAGES
    BY OwnerStages
  <2>2. q.stages[Gate(o)] = r.stages[Gate(o)]
    BY <2>1 DEF Kept
  <2> QED BY <2>2 DEF Credited, StageDone
<1> QED BY <1>3, <1>4 DEF True

-----------------------------------------------------------------------------
(* How runs end and go on *)

(* A true receipt stays true while neither the router nor an owner moves.  *)
LEMMA TrueUnmoved ==
  ASSUME UNCHANGED <<router, ran>>, NEW r, True(r), disk' = r
  PROVE  True(disk)'
BY DEF True, NativeTrue, Credited

(* A run may end, by itself or killed, with a receipt on disk that claims  *)
(* nothing new.                                                            *)
LEMMA StopTrue ==
  ASSUME Inductive, Truthful, pc # "idle", NEW why, why \notin Asking, Stop(why),
         UNCHANGED <<router, ran>>,
         disk' = disk \/ (Kept(disk, disk') /\ InOrder(disk'))
  PROVE  Truthful'
<1>1. True(disk)
  BY KeptInMemory DEF Truthful
<1>2. True(disk)'
  <2>1. True(disk')
    BY <1>1, KeptTrue
  <2> QED BY <2>1, TrueUnmoved
<1>3. Reported' /\ Asked' /\ Locked'
  BY DEF Stop, Reported, Asked, Locked, Located, Asking, Owner
<1> QED BY <1>2, <1>3 DEF Truthful

(* A handoff or a failure writes a receipt that claims nothing new.        *)
LEMMA WriteAndStopTrue ==
  ASSUME Inductive, Truthful, pc # "idle", NEW r, Kept(disk, r),
         NEW why, why \notin Asking, WriteAndStop(r, why), UNCHANGED <<router, ran>>
  PROVE  Truthful'
<1>1. CASE Writable(r)
  BY <1>1, StopTrue DEF WriteAndStop, Writable, Valid
<1>2. CASE ~Writable(r)
  BY <1>2, StopTrue DEF WriteAndStop, Asking
<1> QED BY <1>1, <1>2

(* A write in mid-run keeps the receipt true when what is written is, and  *)
(* leads to the native stage only with the reboot proof recorded.          *)
LEMMA WriteThenTrue ==
  ASSUME Inductive, Truthful, pc # "idle", NEW r, NEW next, next # "idle",
         WriteThen(r, next), UNCHANGED <<router, ran, manifest>>,
         InOrder(r) => True(r),
         next = "native" => StageDone(r, post_reboot_proof),
         next \in Located /\ StageDone(r, strict_plan) => manifest = r.endpoint_manifest
  PROVE  Truthful'
<1>1. CASE Writable(r)
  <2>1. disk' = r /\ mem' = r /\ pc' = next /\ result' = "none" /\ outcome' = outcome
    BY <1>1 DEF WriteThen
  <2>2. True(r)
    BY <1>1 DEF Writable, Valid
  <2>3. True(disk)'
    BY <2>1, <2>2, TrueUnmoved
  <2>4. outcome' \notin Asking
    BY <2>1 DEF Truthful, Asked, Asking
  <2>5. Reported'
    BY <2>1 DEF Reported, StageDone
  <2>6. Asked'
    BY <2>4 DEF Asked, Asking
  <2>7. Locked'
    BY <2>1 DEF Locked, StageDone
  <2> QED BY <2>3, <2>5, <2>6, <2>7 DEF Truthful
<1>2. CASE ~Writable(r)
  BY <1>2, StopTrue DEF WriteThen, Asking
<1> QED BY <1>1, <1>2

(* Passing a stage by keeps the receipt true.                              *)
LEMMA GoOnTrue ==
  ASSUME Inductive, Truthful, pc # "idle", result = "none",
         NEW next, next # "idle", GoOn(next), UNCHANGED <<router, ran, manifest>>,
         next = "native" => StageDone(mem, post_reboot_proof),
         next \in Located => pc \in Located \/ manifest = mem.endpoint_manifest
  PROVE  Truthful'
<1>1. disk' = disk /\ mem' = mem /\ pc' = next /\ result' = "none" /\ outcome' = outcome
  BY DEF GoOn
<1>2. True(disk)'
  BY <1>1, KeptInMemory, TrueUnmoved DEF Truthful
<1>3. outcome' \notin Asking
  BY <1>1 DEF Truthful, Asked, Asking
<1>4. Reported'
  BY <1>1 DEF Reported, StageDone
<1>5. Asked'
  BY <1>3 DEF Asked, Asking
<1>6. Locked'
  BY <1>1 DEF Truthful, Locked, StageDone
<1> QED BY <1>2, <1>4, <1>5, <1>6 DEF Truthful

-----------------------------------------------------------------------------
(* Steps that claim nothing new *)

(* Marking stages of mem claims nothing that the receipt on disk does not. *)
LEMMA KeptMarked ==
  ASSUME Inductive, pc # "idle", NEW S \in SUBSET Stage, NEW status \in Status, NEW q,
         q.stages = MarkStages(mem, S, status).stages,
         q.native_transaction = mem.native_transaction,
         q.endpoint_manifest = mem.endpoint_manifest,
         S \cap INSTALLATION_STAGES = {} \/ status = "FAIL",
         post_reboot_proof \in S => status \in {"PASS", "SKIPPED"},
         native_proxy_policy_transaction \in S => status # "SKIPPED"
  PROVE  Kept(mem, q) /\ Kept(disk, q)
<1>1. mem \in Receipt /\ Kept(disk, mem)
  BY KeptInMemory
<1>2. Kept(mem, q)
  BY <1>1, KeptMark
<1> QED BY <1>1, <1>2, KeptChain

(* What marking leaves of the receipt.                                     *)
LEMMA MarkedRest ==
  ASSUME NEW r \in Receipt, NEW S \in SUBSET Stage, NEW status \in Status
  PROVE  /\ MarkStages(r, S, status).native_transaction = r.native_transaction
         /\ MarkStages(r, S, status).endpoint_manifest = r.endpoint_manifest
         /\ MarkStages(r, S, status).state_epoch = r.state_epoch
         /\ MarkStages(r, S, status).reboot_required = r.reboot_required
BY DEF MarkStages, Receipt

(* A recorded failure claims nothing, whatever was done before it.         *)
LEMMA FailTrue ==
  ASSUME Inductive, Truthful, pc # "idle", NEW s \in Stage, s # post_reboot_proof,
         Fail(s), UNCHANGED <<router, ran>>
  PROVE  Truthful'
<1> DEFINE q == MarkStages(mem, {s}, "FAIL")
<1>1. mem \in Receipt /\ {s} \in SUBSET Stage /\ "FAIL" \in Status
  BY KeptInMemory DEF Status
<1>2. Kept(disk, q)
  BY <1>1, KeptMarked, MarkedRest
<1>3. WriteAndStop(q, "failed")
  BY DEF Fail
<1> HIDE DEF q
<1> QED BY <1>2, <1>3, WriteAndStopTrue DEF Asking

(* A handoff that asks for no change of the router.                        *)
LEMMA HandoffTrue ==
  ASSUME Inductive, Truthful, pc # "idle", NEW why, why \notin Asking, Handoff(why),
         UNCHANGED <<router, ran>>
  PROVE  Truthful'
BY KeptInMemory, WriteAndStopTrue DEF Handoff

(* A run that stops without writing.                                       *)
LEMMA ErrorTrue ==
  ASSUME Inductive, Truthful, pc # "idle", Error, UNCHANGED <<router, ran>>
  PROVE  Truthful'
BY StopTrue DEF Error, Asking

(* A write in mid-run that claims nothing new.                             *)
LEMMA KeptThenTrue ==
  ASSUME Inductive, Truthful, pc \in Located, NEW r, Kept(mem, r), NEW next, next # "idle",
         WriteThen(r, next), UNCHANGED <<router, ran, manifest>>,
         next = "native" => StageDone(r, post_reboot_proof)
  PROVE  Truthful'
<1>1. pc # "idle" /\ Kept(disk, mem) /\ disk # NoReceipt
  BY KeptInMemory DEF Located
<1>2. InOrder(r) => True(r)
  BY <1>1, KeptChain, KeptTrue DEF Truthful
<1>3. StageDone(r, strict_plan) =>
        StageDone(mem, strict_plan) /\ r.endpoint_manifest = mem.endpoint_manifest
  BY StageNumbers DEF Kept, StageDone
<1>4. StageDone(r, strict_plan) => manifest = r.endpoint_manifest
  BY <1>3 DEF Truthful, Locked
<1> QED BY <1>1, <1>2, <1>4, WriteThenTrue

-----------------------------------------------------------------------------
(* Local installation *)

(* The stage whose completion passes an owner by is recorded by no other.  *)
LEMMA GatesApart ==
  ASSUME NEW o \in Owner, NEW p \in Owner, o # p
  PROVE  Gate(p) \notin Recorded[o]
<1>1. \A x \in Owner :
        Recorded[x] = IF x = "preflight" THEN {1, 2} ELSE IF x = "bootstrap" THEN {3}
                      ELSE IF x = "setup" THEN {4, 5, 6} ELSE IF x = "backup" THEN {7}
                      ELSE IF x = "install" THEN {8} ELSE IF x = "healthcheck" THEN {9} ELSE {10}
  BY StageNumbers DEF Recorded
<1>2. Gate(p) \in Recorded[p]
  BY OwnerStages
<1> QED BY <1>1, <1>2, StageNumbers DEF Owner

(* A receipt with the stages of an owner recorded that has just succeeded  *)
(* in this epoch is true: nothing after the installation is done yet.      *)
LEMMA OwnerRecordTrue ==
  ASSUME NEW r \in Receipt, Sound(r), True(r), NEW o \in Owner, ~AllDone(r, Recorded[o]),
         RuntimeMode = "local-router" => ran[o] = r.state_epoch, NEW q,
         q.stages = MarkStages(r, Recorded[o], "PASS").stages,
         q.native_transaction = r.native_transaction
  PROVE  True(q)
<1>1. Recorded[o] \in SUBSET Stage /\ Recorded[o] \in SUBSET INSTALLATION_STAGES /\ "PASS" \in Status
  BY OwnerStages DEF Status
<1>2. \A s \in Stage : q.stages[s] =
        IF s \in Recorded[o] THEN [status |-> "PASS", epoch |-> r.state_epoch] ELSE r.stages[s]
  BY <1>1, MarkStagesFields
<1>3. NativeTrue(q)
  <2>1. PICK u \in Recorded[o] : ~StageDone(r, u)
    BY DEF AllDone
  <2>2. u \in Stage /\ u < post_reboot_proof /\ post_reboot_proof \in Stage
    BY <1>1, StageNumbers
  <2>3. ~StageDone(r, post_reboot_proof)
    BY <2>1, <2>2 DEF Sound, InOrder
  <2>4. q.native_transaction.status = "PENDING"
    BY <2>3 DEF True, NativeTrue
  <2>5. native_proxy_policy_transaction \in Stage \ Recorded[o]
    BY <1>1, StageNumbers
  <2>6. q.stages[native_proxy_policy_transaction].status # "SKIPPED"
    BY <1>2, <2>5 DEF True, NativeTrue
  <2> QED BY <2>4, <2>6 DEF NativeTrue
<1>4. ASSUME RuntimeMode = "local-router", Credited(r)
      PROVE  Credited(q)
  <2> SUFFICES ASSUME NEW p \in Owner, StageDone(q, Gate(p))
               PROVE  ran[p] = q.stages[Gate(p)].epoch
    BY DEF Credited
  <2>1. Gate(p) \in Stage /\ Gate(p) \in Recorded[p]
    BY OwnerStages
  <2>2. CASE p = o
    BY <1>2, <1>4, <2>1, <2>2
  <2>3. CASE p # o
    <3>1. Gate(p) \notin Recorded[o]
      BY <2>3, GatesApart
    <3>2. q.stages[Gate(p)] = r.stages[Gate(p)]
      BY <1>2, <2>1, <3>1
    <3> QED BY <1>4, <3>2 DEF Credited, StageDone
  <2> QED BY <2>2, <2>3
<1> QED BY <1>3, <1>4 DEF True

(* The run of an owner whose stage is open on disk leaves what the receipt *)
(* says true; what the owner did is the result of the run.                 *)
LEMMA OwnerRunTrue ==
  ASSUME Inductive, Truthful, NEW o \in Owner, pc = o, result = "none", ~StageDone(disk, Gate(o)),
         UNCHANGED <<disk, pc, outcome, router>>, o \in Located => mem' = mem /\ manifest' = manifest,
         \/ result' = "ok" /\ ran' = [ran EXCEPT ![o] = mem'.state_epoch]
         \/ result' = "fail" /\ ran' = ran
  PROVE  Truthful'
<1>1. pc # "idle" /\ pc # "native"
  BY DEF Owner
<1>2. True(disk)
  BY <1>1, KeptInMemory DEF Truthful
<1>3. ran \in [Owner -> Epoch]
  BY DEF Inductive, TypeOK
<1>4. \A p \in Owner \ {o} : ran'[p] = ran[p]
  BY <1>3
<1>5. True(disk)'
  <2>1. NativeTrue(disk)'
    BY <1>2 DEF True, NativeTrue
  <2>2. ASSUME Credited(disk)
        PROVE  Credited(disk)'
    <3> SUFFICES ASSUME NEW p \in Owner, StageDone(disk, Gate(p))
                 PROVE  ran'[p] = disk.stages[Gate(p)].epoch
      BY DEF Credited
    <3> QED BY <1>4, <2>2 DEF Credited
  <2> QED BY <1>2, <2>1, <2>2 DEF True
<1>6. Reported'
  BY <1>1, <1>3 DEF Reported
<1>7. Asked'
  BY <1>1 DEF Truthful, Asked
<1>8. Locked'
  BY DEF Truthful, Locked, StageDone
<1> QED BY <1>5, <1>6, <1>7, <1>8 DEF Truthful

(* The preflight steps keep the receipt true.                              *)
LEMMA PreflightTrue ==
  ASSUME Inductive, Truthful,
         PassPreflight \/ PreflightHandoff \/ PreflightEvidence \/ RunPreflight \/ RecordPreflight
  PROVE  Truthful'
<1>1. pc = "preflight" /\ pc # "idle" /\ "preflight" \in Owner
  BY DEF PassPreflight, PreflightHandoff, PreflightEvidence, RunPreflight, RecordPreflight,
     PreflightNeeded, Owner
<1>2. /\ mem \in Receipt /\ Sound(mem) /\ Sound(disk) /\ disk \in Receipt /\ run \in Run
      /\ Kept(disk, mem)
      /\ result = "none" => mem = disk
  BY <1>1, RunHoldsReceipt, KeptInMemory
<1>3. Quiet => UNCHANGED <<router, ran, manifest>>
  BY DEF Quiet, world
<1>4. Evident => run.evidence \in Evidence
  BY <1>2 DEF Run, Evident
<1>5. CASE PassPreflight
  BY <1>1, <1>3, <1>5, GoOnTrue DEF PassPreflight, Located
<1>6. CASE PreflightHandoff
  BY <1>1, <1>3, <1>6, HandoffTrue DEF PreflightHandoff, Asking
<1>7. CASE PreflightEvidence
  <2>1. CASE Error
    BY <1>1, <1>3, <1>7, <2>1, ErrorTrue DEF PreflightEvidence
  <2>2. CASE /\ Acceptable(mem, run.evidence)
             /\ WriteAndStop(Accepted(mem, run.evidence), "NETWORK_OR_STORAGE_READINESS_REQUIRED")
    <3>1. Kept(disk, Accepted(mem, run.evidence))
      BY <1>2, <1>4, <1>7, <2>2, KeptAccepted, KeptChain DEF PreflightEvidence
    <3> QED BY <1>1, <1>3, <1>7, <2>2, <3>1, WriteAndStopTrue DEF PreflightEvidence, Asking
  <2> QED BY <1>7, <2>1, <2>2 DEF PreflightEvidence
<1>8. CASE RunPreflight
  <2>1. ~StageDone(disk, Gate("preflight"))
    <3>1. PICK u \in Recorded["preflight"] : ~StageDone(disk, u)
      BY <1>2, <1>8 DEF RunPreflight, PreflightNeeded, AllDone
    <3>2. Gate("preflight") \in Stage /\ u \in Stage /\ u <= Gate("preflight")
      BY <1>1, OwnerStages
    <3> QED BY <1>2, <3>1, <3>2, StageNumbers DEF Sound, InOrder
  <2> QED BY <1>1, <1>8, <2>1, OwnerRunTrue DEF RunPreflight, PreflightNeeded, Located
<1>9. CASE RecordPreflight
  <2>1. CASE result = "ok"
    <3> DEFINE q == MarkStages(mem, Recorded["preflight"], "PASS")
    <3>1. True(mem)
      BY <1>1, <1>2, KeptInMemory, KeptTrue DEF Truthful, Sound
    <3>2. RuntimeMode = "local-router" => ran["preflight"] = mem.state_epoch
      BY <1>1, <2>1 DEF Truthful, Reported
    <3>3. ~AllDone(mem, Recorded["preflight"])
      BY <1>1, <2>1 DEF Inductive
    <3>4. Recorded["preflight"] \in SUBSET Stage /\ "PASS" \in Status
      BY <1>1, OwnerStages DEF Status
    <3>5. True(q)
      BY <1>1, <1>2, <3>1, <3>2, <3>3, <3>4, MarkedRest, OwnerRecordTrue
    <3>6. WriteThen(q, "bootstrap")
      BY <1>9, <2>1 DEF RecordPreflight
    <3> HIDE DEF q
    <3> QED BY <1>1, <1>3, <1>9, <3>5, <3>6, WriteThenTrue DEF RecordPreflight, Located
  <2>2. CASE result = "fail"
    <3>1. ReadinessStage \in Stage /\ ReadinessStage # post_reboot_proof
      BY StageNumbers DEF ReadinessStage
    <3> QED BY <1>1, <1>3, <1>9, <2>2, <3>1, FailTrue DEF RecordPreflight
  <2> QED BY <1>9, <2>1, <2>2 DEF RecordPreflight
<1> QED BY <1>5, <1>6, <1>7, <1>8, <1>9

(* The steps of the other local owners keep the receipt true: a stage is   *)
(* recorded only after the run of its owner in the same epoch.             *)
LEMMA OwnerTrue ==
  ASSUME Inductive, Truthful, NEW o \in Owner \ {"preflight"},
         PassOwner(o) \/ RunOwner(o) \/ RecordOwner(o)
  PROVE  Truthful'
<1>1. pc = o /\ pc # "idle" /\ pc # "component" /\ pc # "preflight"
  BY DEF PassOwner, RunOwner, RecordOwner, Owner
<1>2. /\ mem \in Receipt /\ Sound(mem) /\ mem = disk /\ disk # NoReceipt
  BY <1>1, RunHoldsReceipt, KeptInMemory
<1>3. Quiet => UNCHANGED <<router, ran, manifest>>
  BY DEF Quiet, world
<1>4. /\ Recorded[o] \in SUBSET Stage /\ "PASS" \in Status
      /\ FailedStage(o) \in Stage /\ FailedStage(o) # post_reboot_proof
      /\ After[o] \in Label \ {"idle"} /\ After[o] # "native"
      /\ After[o] \in Located => o = "setup" \/ o \in Located
      /\ o \in Located => o # "setup"
  <2>1. After[o] # "native"
    BY OwnerStages DEF Late
  <2> QED BY <2>1, OwnerStages, StageNumbers DEF Status, Located
<1>5. CASE PassOwner(o)
  <2>1. CASE Error
    BY <1>1, <1>3, <1>5, <2>1, ErrorTrue DEF PassOwner
  <2>2. CASE (o = "setup" => manifest = mem.endpoint_manifest) /\ GoOn(After[o])
    BY <1>1, <1>3, <1>4, <1>5, <2>2, GoOnTrue DEF PassOwner
  <2> QED BY <1>5, <2>1, <2>2 DEF PassOwner
<1>6. CASE RunOwner(o)
  BY <1>1, <1>2, <1>4, <1>6, OwnerRunTrue DEF RunOwner
<1>7. CASE RecordOwner(o)
  <2>1. CASE result = "ok"
    <3> DEFINE done == MarkStages(mem, Recorded[o], "PASS")
               q == OwnerReceipt(o)
    <3>1. /\ done \in Receipt /\ done.native_transaction = mem.native_transaction
          /\ done.endpoint_manifest = mem.endpoint_manifest
          /\ \A s \in Stage \ Recorded[o] : done.stages[s] = mem.stages[s]
      <4>1. /\ done \in Receipt
            /\ \A s \in Stage : done.stages[s] =
                 IF s \in Recorded[o] THEN [status |-> "PASS", epoch |-> mem.state_epoch]
                 ELSE mem.stages[s]
        BY <1>2, <1>4, MarkStagesFields
      <4>2. /\ done.native_transaction = mem.native_transaction
            /\ done.endpoint_manifest = mem.endpoint_manifest
        BY <1>2, <1>4, MarkedRest
      <4> HIDE DEF done
      <4> QED BY <4>1, <4>2
    <3>2. q = CASE o = "setup"       -> [done EXCEPT !.endpoint_manifest = manifest]
                [] o = "healthcheck" -> Verified(done, {"xray"})
                [] o = "autostart"   ->
                     Verified([done EXCEPT !.runtime_disposition = "EXECUTED"],
                              {"installation", "autostart"})
                [] OTHER             -> done
      BY DEF OwnerReceipt, done
    <3>3. ~AllDone(mem, Recorded[o]) /\ True(mem)
          /\ (RuntimeMode = "local-router" => ran[o] = mem.state_epoch)
      BY <1>1, <1>2, <2>1 DEF Inductive, Truthful, Reported
    <3> HIDE DEF done, q
    <3>4. /\ q.stages = done.stages /\ q.native_transaction = mem.native_transaction
          /\ q.endpoint_manifest = IF o = "setup" THEN manifest ELSE mem.endpoint_manifest
      <4>1. CASE o = "setup"
        BY <3>1, <3>2, <4>1 DEF Receipt
      <4>2. CASE o = "healthcheck"
        BY <3>1, <3>2, <4>2 DEF Verified, Receipt
      <4>3. CASE o = "autostart"
        BY <3>1, <3>2, <4>3 DEF Verified, Receipt
      <4>4. CASE o \notin {"setup", "healthcheck", "autostart"}
        BY <3>1, <3>2, <4>4
      <4> QED BY <4>1, <4>2, <4>3, <4>4
    <3>5. True(q)
      BY <1>2, <3>3, <3>4, OwnerRecordTrue DEF done
    <3>6. WriteThen(q, After[o])
      BY <1>7, <2>1 DEF RecordOwner, q
    <3>7. ASSUME After[o] \in Located, StageDone(q, strict_plan)
          PROVE  manifest = q.endpoint_manifest
      <4>1. CASE o = "setup"
        BY <3>4, <4>1
      <4>2. CASE o # "setup"
        <5>1. strict_plan \in Stage \ Recorded[o]
          BY <4>2, StageNumbers DEF Recorded, Owner
        <5>2. StageDone(mem, strict_plan)
          BY <3>1, <3>4, <3>7, <5>1 DEF StageDone
        <5> QED BY <1>1, <1>4, <3>4, <3>7, <4>2, <5>2 DEF Truthful, Locked
      <4> QED BY <4>1, <4>2
    <3> QED BY <1>1, <1>3, <1>4, <1>7, <3>5, <3>6, <3>7, WriteThenTrue DEF RecordOwner
  <2>2. CASE result = "fail"
    BY <1>1, <1>3, <1>4, <1>7, <2>2, FailTrue DEF RecordOwner
  <2> QED BY <1>7, <2>1, <2>2 DEF RecordOwner
<1> QED BY <1>5, <1>6, <1>7

-----------------------------------------------------------------------------
(* External runtime *)

(* The steps of the external runtime keep the receipt true: it locks the   *)
(* manifest of this run, and what it accepts takes the native result back. *)
LEMMA RuntimeTrue ==
  ASSUME Inductive, Truthful, RuntimeError \/ KeepRuntime \/ RuntimeHandoff \/ RecordRuntime
  PROVE  Truthful'
<1>1. /\ pc = "runtime" /\ pc # "idle" /\ mem = disk /\ mem \in Receipt /\ Sound(mem)
      /\ disk # NoReceipt /\ RuntimeMode = "external-evidence" /\ run \in Run /\ True(mem)
      /\ result = "none"
  <2>1. pc = "runtime"
    BY DEF RuntimeError, KeepRuntime, RuntimeHandoff, RecordRuntime, RuntimeReviewed
  <2> QED BY <2>1, RunHoldsReceipt, KeptInMemory DEF Inductive, Truthful, Reported, Owner
<1>2. Quiet => UNCHANGED <<router, ran, manifest>>
  BY DEF Quiet, world
<1>3. RuntimeMode # "local-router"
  BY <1>1
<1>4. ASSUME RuntimeReviewed
      PROVE  /\ Reviewed \in Receipt /\ Sound(Reviewed) /\ Kept(mem, Reviewed)
  <2>1. Evident => run.evidence \in Evidence
    BY <1>1 DEF Run, Evident
  <2> QED BY <1>1, <1>4, <2>1, ReviewedReceipt, KeptSelf, KeptAccepted
<1>5. CASE RuntimeError
  BY <1>1, <1>2, <1>5, ErrorTrue DEF RuntimeError
<1>6. CASE KeepRuntime
  <2>1. /\ mem' = Reviewed /\ pc' = "component" /\ UNCHANGED <<disk, run, result, outcome>>
        /\ UNCHANGED <<router, ran, manifest>> /\ Kept(mem, Reviewed)
        /\ manifest = mem.endpoint_manifest
    BY <1>4, <1>6 DEF KeepRuntime, world, RuntimeKept, RuntimeReviewed
  <2>2. True(disk)'
    BY <1>1, <2>1, TrueUnmoved
  <2>3. Reported' /\ Asked'
    BY <1>1, <2>1 DEF Truthful, Reported, Asked, Owner
  <2>4. Locked'
    BY <2>1 DEF Locked, Kept
  <2> QED BY <2>2, <2>3, <2>4 DEF Truthful
<1>7. CASE RuntimeHandoff
  BY <1>1, <1>2, <1>4, <1>7, WriteAndStopTrue DEF RuntimeHandoff, Asking
<1>8. CASE RecordRuntime
  <2> DEFINE r == Accepted(Reviewed, run.evidence)
             q == RuntimeReceipt
             st == [s \in Stage |-> IF s \in INSTALLATION_STAGES
                      THEN [status |-> IF Adopt THEN AdoptedStatus(s) ELSE "PASS",
                            epoch |-> r.state_epoch]
                      ELSE r.stages[s]]
             located == [r EXCEPT !.endpoint_manifest = manifest, !.runtime_evidence = TRUE,
                           !.runtime_disposition = IF Adopt THEN "ADOPTED" ELSE "EXTERNAL_EXECUTED",
                           !.stages = st]
  <2>1. /\ RuntimeReviewed /\ ~RuntimeKept /\ run.evidence \in Evidence
        /\ Acceptable(Reviewed, run.evidence)
    BY <1>1, <1>8 DEF RecordRuntime, Sufficient, Run, Evident
  <2>2. /\ Reviewed \in Receipt /\ Sound(Reviewed) /\ True(Reviewed)
    BY <1>1, <1>4, <2>1, KeptTrue DEF Sound
  <2>3. \A t \in Stage : t > autostart => ~StageDone(Reviewed, t)
    BY <2>1, ReviewedReceipt
  <2>4. ~StageDone(Reviewed, post_reboot_proof)
    BY <2>3, StageNumbers
  <2>5. Reviewed.native_transaction.status = "PENDING"
    BY <2>2, <2>4 DEF True, NativeTrue
  <2>6. r \in Receipt /\ Kept(Reviewed, r)
    BY <2>1, <2>2, AcceptedSound, KeptAccepted
  <2>7. /\ r.native_transaction.status = "PENDING"
        /\ r.stages[native_proxy_policy_transaction].status # "SKIPPED"
    BY <2>2, <2>5, <2>6 DEF Kept, EmptyNativeTransaction, True, NativeTrue
  <2>8. q = [located EXCEPT !.final_verification = DerivedFinal(located)]
    BY DEF RuntimeReceipt
  <2>9. st[native_proxy_policy_transaction] = r.stages[native_proxy_policy_transaction]
    BY StageNumbers
  <2> HIDE DEF r, q, st
  <2>10. /\ q.stages = st /\ q.native_transaction = r.native_transaction
         /\ q.endpoint_manifest = manifest
    BY <2>6, <2>8 DEF Receipt
  <2>11. True(q)
    BY <1>3, <2>7, <2>9, <2>10 DEF True, NativeTrue
  <2>12. WriteThen(q, "component") /\ Quiet
    BY <1>8 DEF RecordRuntime, q
  <2> QED BY <1>1, <1>2, <2>10, <2>11, <2>12, WriteThenTrue
<1> QED BY <1>5, <1>6, <1>7, <1>8

-----------------------------------------------------------------------------
(* Component and reboot *)

(* The component steps claim nothing of the router.                        *)
LEMMA ComponentTrue ==
  ASSUME Inductive, Truthful, AcceptAtComponent \/ InspectComponent
  PROVE  Truthful'
<1>1. /\ pc \in {"component", "inspect"} /\ pc # "idle" /\ pc \in Located
      /\ mem \in Receipt /\ Sound(mem) /\ run \in Run /\ result = "none"
  <2>1. pc \in {"component", "inspect"} /\ pc # "idle" /\ pc \in Located
    BY DEF AcceptAtComponent, InspectComponent, Located, Label
  <2> QED BY <2>1, RunHoldsReceipt DEF Truthful, Reported, Owner
<1>2. Quiet => UNCHANGED <<router, ran, manifest>>
  BY DEF Quiet, world
<1>3. Evident => run.evidence \in Evidence
  BY <1>1 DEF Run, Evident
<1>4. CASE AcceptAtComponent
  <2>1. CASE ~Evident /\ GoOn("inspect")
    BY <1>1, <1>2, <1>4, <2>1, GoOnTrue DEF AcceptAtComponent
  <2>2. CASE Error
    BY <1>1, <1>2, <1>4, <2>2, ErrorTrue DEF AcceptAtComponent
  <2>3. CASE /\ Evident /\ Acceptable(mem, run.evidence)
             /\ WriteThen(Accepted(mem, run.evidence), "inspect")
    <3>1. Kept(mem, Accepted(mem, run.evidence))
      BY <1>1, <1>3, <2>3, KeptAccepted
    <3> QED BY <1>1, <1>2, <1>4, <2>3, <3>1, KeptThenTrue DEF AcceptAtComponent
  <2> QED BY <1>4, <2>1, <2>2, <2>3 DEF AcceptAtComponent
<1>5. CASE InspectComponent
  <2>1. CASE GoOn("reboot")
    BY <1>1, <1>2, <1>5, <2>1, GoOnTrue DEF InspectComponent
  <2>2. CASE \/ Handoff("PROXY_COMPONENT_INSPECTION_REQUIRED")
             \/ Handoff("PROXY_COMPONENT_INSTALL_REQUIRED")
    BY <1>1, <1>2, <1>5, <2>2, HandoffTrue DEF InspectComponent, Asking
  <2>3. CASE Error
    BY <1>1, <1>2, <1>5, <2>3, ErrorTrue DEF InspectComponent
  <2>4. CASE WriteThen(ComponentReceipt, "reboot")
    <3> DEFINE S == {native_proxy_component}
               done == MarkStages(mem, S, "PASS")
               q == ComponentReceipt
    <3>1. /\ S \in SUBSET Stage /\ "PASS" \in Status /\ S \cap INSTALLATION_STAGES = {}
          /\ post_reboot_proof \notin S /\ native_proxy_policy_transaction \notin S
      BY StageNumbers DEF Status
    <3>2. /\ q.stages = done.stages /\ q.native_transaction = done.native_transaction
          /\ q.endpoint_manifest = done.endpoint_manifest
      <4>1. done \in Receipt
        BY <1>1, <3>1, MarkStagesFields
      <4> HIDE DEF done
      <4> QED BY <4>1 DEF ComponentReceipt, done, Receipt
    <3>3. Kept(mem, q)
      BY <1>1, <3>1, <3>2, MarkedRest, KeptMarked
    <3> HIDE DEF q
    <3> QED BY <1>1, <1>2, <1>5, <2>4, <3>3, KeptThenTrue DEF InspectComponent, q
  <2> QED BY <1>5, <2>1, <2>2, <2>3, <2>4 DEF InspectComponent
<1> QED BY <1>4, <1>5

(* The reboot steps lead to the native stage only with the proof recorded. *)
LEMMA RebootTrue ==
  ASSUME Inductive, Truthful, PassReboot \/ SkipReboot \/ ProveReboot \/ RebootHandoff
  PROVE  Truthful'
<1>1. /\ pc = "reboot" /\ pc # "idle" /\ pc \in Located /\ result = "none"
      /\ mem \in Receipt /\ Sound(mem)
  <2>1. pc = "reboot"
    BY DEF PassReboot, SkipReboot, ProveReboot, RebootHandoff, RebootOpen
  <2> QED BY <2>1, RunHoldsReceipt DEF Truthful, Reported, Owner, Located, Label
<1>2. Quiet => UNCHANGED <<router, ran, manifest>>
  BY DEF Quiet, world
<1> DEFINE S == {controlled_reboot, post_reboot_proof}
<1>3. /\ S \in SUBSET Stage /\ {"PASS", "SKIPPED"} \in SUBSET Status
      /\ S \cap INSTALLATION_STAGES = {} /\ native_proxy_policy_transaction \notin S
      /\ post_reboot_proof \in S
  BY StageNumbers DEF Status
<1>4. ASSUME NEW status \in {"PASS", "SKIPPED"}, NEW q,
             q.stages = MarkStages(mem, S, status).stages,
             q.native_transaction = mem.native_transaction,
             q.endpoint_manifest = mem.endpoint_manifest
      PROVE  Kept(mem, q) /\ StageDone(q, post_reboot_proof)
  <2>1. Kept(mem, q)
    BY <1>1, <1>3, <1>4, KeptMarked
  <2>2. \A s \in Stage : q.stages[s] =
          IF s \in S THEN [status |-> status, epoch |-> mem.state_epoch] ELSE mem.stages[s]
    BY <1>1, <1>3, <1>4, MarkStagesFields
  <2> QED BY <1>3, <2>1, <2>2 DEF StageDone
<1>5. CASE PassReboot
  <2>1. StageDone(mem, post_reboot_proof)
    BY <1>1, <1>5 DEF PassReboot, Sound, Proven
  <2> QED BY <1>1, <1>2, <1>5, <2>1, GoOnTrue DEF PassReboot
<1>6. CASE SkipReboot
  <2> DEFINE q == MarkStages(mem, S, "SKIPPED")
  <2>1. Kept(mem, q) /\ StageDone(q, post_reboot_proof)
    BY <1>1, <1>3, <1>4, MarkedRest
  <2>2. WriteThen(q, "native") /\ Quiet
    BY <1>6 DEF SkipReboot
  <2> HIDE DEF q
  <2> QED BY <1>1, <1>2, <2>1, <2>2, KeptThenTrue
<1>7. CASE ProveReboot
  <2>1. CASE Error
    BY <1>1, <1>2, <1>7, <2>1, ErrorTrue DEF ProveReboot
  <2>2. CASE WriteThen(RebootReceipt, "native")
    <3> DEFINE done == MarkStages(mem, S, "PASS")
               q == RebootReceipt
    <3>1. /\ q.stages = done.stages /\ q.native_transaction = done.native_transaction
          /\ q.endpoint_manifest = done.endpoint_manifest
      <4>1. done \in Receipt
        BY <1>1, <1>3, MarkStagesFields
      <4>2. q = [done EXCEPT !.completed_reboot_epoch = mem.state_epoch]
        BY DEF RebootReceipt
      <4> HIDE DEF done, q
      <4> QED BY <4>1, <4>2 DEF Receipt
    <3>2. Kept(mem, q) /\ StageDone(q, post_reboot_proof)
      <4>1. "PASS" \in Status
        BY DEF Status
      <4> QED BY <1>1, <1>3, <1>4, <3>1, <4>1, MarkedRest
    <3> HIDE DEF q
    <3> QED BY <1>1, <1>2, <1>7, <2>2, <3>2, KeptThenTrue DEF ProveReboot, q
  <2> QED BY <1>7, <2>1, <2>2 DEF ProveReboot
<1>8. CASE RebootHandoff
  <2>1. CASE Stop("traceback") /\ UNCHANGED disk
    BY <1>1, <1>2, <1>8, <2>1, StopTrue DEF RebootHandoff, Asking
  <2>2. CASE \/ Handoff("CONTROLLED_REBOOT_AUTHORIZATION_REQUIRED")
             \/ Handoff("CONTROLLED_REBOOT_REQUIRED")
    BY <1>1, <1>2, <1>8, <2>2, HandoffTrue DEF RebootHandoff, Asking
  <2> QED BY <1>8, <2>1, <2>2 DEF RebootHandoff
<1> QED BY <1>5, <1>6, <1>7, <1>8

-----------------------------------------------------------------------------
(* Native transaction *)

(* At an open native stage everything before it is done, the manifest is   *)
(* the locked one, and the receipt does not claim a finished transaction.  *)
LEMMA NativeStageOpen ==
  ASSUME Inductive, Truthful, NativeOpen
  PROVE  /\ pc = "native" /\ pc # "idle" /\ pc \in Located /\ mem = disk /\ disk # NoReceipt
         /\ mem \in Receipt /\ Sound(mem) /\ True(mem)
         /\ \A s \in Stage : s < native_proxy_policy_transaction => StageDone(mem, s)
         /\ StageDone(mem, post_reboot_proof)
         /\ manifest = mem.endpoint_manifest
         /\ mem.native_transaction.status # "PASS"
         /\ Transport = "local-ndmc" => mem.native_transaction.status = "PENDING"
         /\ outcome \notin Asking
<1>1. pc = "native" /\ ~StageDone(mem, native_proxy_policy_transaction)
  BY DEF NativeOpen
<1>2. /\ mem \in Receipt /\ Sound(mem) /\ mem = disk /\ disk # NoReceipt /\ Writable(mem)
      /\ pc # "idle" /\ pc \in Located /\ True(mem)
  BY <1>1, RunHoldsReceipt, KeptInMemory DEF Located, Label, Truthful
<1>3. StageDone(mem, post_reboot_proof)
  BY <1>1 DEF Truthful, Reported
<1>4. \A s \in Stage : s < native_proxy_policy_transaction => StageDone(mem, s)
  <2> SUFFICES ASSUME NEW s \in Stage, s < native_proxy_policy_transaction
               PROVE  StageDone(mem, s)
    OBVIOUS
  <2>1. s = post_reboot_proof \/ s < post_reboot_proof
    BY StageNumbers
  <2> QED BY <1>2, <1>3, <2>1, StageNumbers DEF Sound, InOrder
<1>5. manifest = mem.endpoint_manifest
  BY <1>2, <1>4, StageNumbers DEF Truthful, Locked
<1>6. mem.native_transaction.status # "PASS"
  BY <1>1, <1>2 DEF Writable, Valid, StageDone
<1>7. Transport = "local-ndmc" => mem.native_transaction.status = "PENDING"
  BY <1>2, <1>6 DEF True, NativeTrue
<1>8. outcome \notin Asking
  BY <1>1 DEF Truthful, Asked, Asking
<1> QED BY <1>1, <1>2, <1>3, <1>4, <1>5, <1>6, <1>7, <1>8

(* A receipt that changes the native transaction and at most its own stage *)
(* is true when what it says of the router is.                             *)
LEMMA NativeWriteTrue ==
  ASSUME NEW r \in Receipt, True(r), NEW q, NativeTrue(q),
         \A s \in INSTALLATION_STAGES : q.stages[s] = r.stages[s]
  PROVE  True(q)
<1>1. Credited(r) => Credited(q)
  <2> SUFFICES ASSUME Credited(r), NEW o \in Owner, StageDone(q, Gate(o))
               PROVE  ran[o] = q.stages[Gate(o)].epoch
    BY DEF Credited
  <2>1. q.stages[Gate(o)] = r.stages[Gate(o)]
    BY OwnerStages
  <2> QED BY <2>1 DEF Credited, StageDone
<1> QED BY <1>1 DEF True

(* A recorded failure of the native stage.                                 *)
LEMMA NativeFailureTrue ==
  ASSUME Inductive, Truthful, pc # "idle", NativeFailed, UNCHANGED <<router, ran>>
  PROVE  Truthful'
BY StageNumbers, FailTrue DEF NativeFailed

(* The local adapter changes the router while the receipt does not speak   *)
(* of it yet.                                                              *)
LEMMA SubprocessTrue ==
  ASSUME Inductive, Truthful, LocalNative, NativeSubprocess,
         result' \in {"noop", "writing", "wrote"} => router'.running = manifest,
         result' = "wrote" => router'.startup = manifest
  PROVE  Truthful'
<1>1. /\ pc = "native" /\ mem = disk /\ disk # NoReceipt /\ True(mem)
      /\ ~StageDone(mem, native_proxy_policy_transaction) /\ StageDone(mem, post_reboot_proof)
      /\ mem.native_transaction.status = "PENDING" /\ outcome \notin Asking
  BY NativeStageOpen DEF LocalNative, NativeOpen
<1>2. UNCHANGED <<disk, mem, pc, run, outcome, manifest, packet, ran>>
  BY DEF NativeSubprocess
<1>3. True(disk)'
  <2>1. NativeTrue(disk)'
    BY <1>1, <1>2 DEF True, NativeTrue
  <2>2. Credited(disk) => Credited(disk)'
    BY <1>2 DEF Credited
  <2> QED BY <1>1, <2>1, <2>2 DEF True
<1>4. Reported'
  BY <1>1, <1>2 DEF Reported, StageDone, Owner
<1>5. Asked'
  BY <1>1, <1>2 DEF Asked, Asking
<1>6. Locked'
  BY <1>2 DEF Truthful, Locked, StageDone
<1> QED BY <1>3, <1>4, <1>5, <1>6 DEF Truthful

(* The local transaction is recorded as the adapter left the router.       *)
LEMMA LocalNativeTrue ==
  ASSUME Inductive, Truthful,
         \/ PassNative \/ LocalNativePlan \/ LocalNativeSave \/ LocalNativeRollback
         \/ RecordLocalNative
  PROVE  Truthful'
<1>1. /\ pc = "native" /\ pc # "idle" /\ pc \in Located
      /\ router \in [running : Manifest \cup {NoManifest}, startup : Manifest \cup {NoManifest}]
  <2>1. pc = "native"
    BY DEF PassNative, LocalNativePlan, LocalNativeSave, LocalNativeRollback,
       RecordLocalNative, LocalNative, NativeOpen
  <2> QED BY <2>1 DEF Inductive, TypeOK, Located, Label
<1>2. Quiet => UNCHANGED <<router, ran, manifest>>
  BY DEF Quiet, world
<1>3. CASE PassNative
  <2>1. result = "none"
    BY <1>1, <1>3 DEF PassNative, Truthful, Reported, Owner
  <2> QED BY <1>1, <1>2, <1>3, <2>1, GoOnTrue DEF PassNative
<1>4. CASE LocalNativePlan
  <2>1. result' = "noop" \/ result' = "writing" => router'.running = manifest
    BY <1>1, <1>4 DEF LocalNativePlan
  <2>2. result' # "wrote"
    BY <1>4 DEF LocalNativePlan
  <2> QED BY <1>4, <2>1, <2>2, SubprocessTrue DEF LocalNativePlan
<1>5. CASE LocalNativeSave
  <2>1. router.running = manifest
    BY <1>1, <1>5 DEF LocalNativeSave, Truthful, Reported
  <2>2. router'.running = manifest /\ router'.startup = manifest
    BY <1>1, <1>5, <2>1 DEF LocalNativeSave
  <2> QED BY <1>5, <2>2, SubprocessTrue DEF LocalNativeSave
<1>6. CASE LocalNativeRollback
  BY <1>6, SubprocessTrue DEF LocalNativeRollback
<1>7. CASE RecordLocalNative
  <2>1. CASE result \in {"noop", "wrote"} /\ WriteThen(LocalNativeReceipt, "dns")
    <3> DEFINE S == {native_proxy_policy_transaction}
               done == MarkStages(mem, S, "PASS")
               nt == [done.native_transaction EXCEPT !.status = "PASS",
                        !.write_required = (result = "wrote"), !.pre_epoch = mem.state_epoch]
               with == [done EXCEPT !.native_transaction = nt]
               q == LocalNativeReceipt
    <3>1. NativeOpen /\ Quiet /\ Transport = "local-ndmc"
      BY <1>7 DEF RecordLocalNative, LocalNative
    <3>2. /\ mem \in Receipt /\ True(mem) /\ StageDone(mem, post_reboot_proof)
          /\ manifest = mem.endpoint_manifest
      BY <3>1, NativeStageOpen
    <3>3. S \in SUBSET Stage /\ "PASS" \in Status
      BY StageNumbers DEF Status
    <3>4. /\ done \in Receipt
          /\ \A s \in Stage : done.stages[s] =
               IF s \in S THEN [status |-> "PASS", epoch |-> mem.state_epoch] ELSE mem.stages[s]
          /\ done.endpoint_manifest = mem.endpoint_manifest
      <4>1. /\ done \in Receipt
            /\ \A s \in Stage : done.stages[s] =
                 IF s \in S THEN [status |-> "PASS", epoch |-> mem.state_epoch]
                 ELSE mem.stages[s]
        BY <3>2, <3>3, MarkStagesFields
      <4>2. done.endpoint_manifest = mem.endpoint_manifest
        BY <3>2, <3>3, MarkedRest
      <4> HIDE DEF done
      <4> QED BY <4>1, <4>2
    <3>5. q = Verified(with, {"native_routing"})
      BY DEF LocalNativeReceipt
    <3> HIDE DEF done, q
    <3>6. nt.status = "PASS" /\ (nt.write_required => result = "wrote")
      <4> DEFINE old == done.native_transaction
      <4>1. old \in NativeTransaction
        BY <3>4 DEF Receipt
      <4> HIDE DEF old
      <4> QED BY <4>1 DEF NativeTransaction, old
    <3> HIDE DEF nt
    <3>7. /\ q.stages = done.stages /\ q.native_transaction = nt
          /\ q.endpoint_manifest = mem.endpoint_manifest
      BY <3>4, <3>5 DEF Verified, Receipt
    <3>8. /\ \A s \in INSTALLATION_STAGES : q.stages[s] = mem.stages[s]
          /\ q.stages[post_reboot_proof] = mem.stages[post_reboot_proof]
          /\ q.stages[native_proxy_policy_transaction].status = "PASS"
      BY <3>4, <3>7, StageNumbers
    <3>9. /\ router.running = mem.endpoint_manifest
          /\ result = "wrote" => router.startup = mem.endpoint_manifest
      BY <1>1, <2>1, <3>2 DEF Truthful, Reported
    <3>10. NativeTrue(q)
      BY <3>2, <3>6, <3>7, <3>8, <3>9 DEF NativeTrue, StageDone
    <3>11. True(q)
      BY <3>2, <3>8, <3>10, NativeWriteTrue
    <3> QED BY <1>1, <1>2, <2>1, <3>1, <3>2, <3>7, <3>11, WriteThenTrue DEF q
  <2>2. CASE Fail(native_proxy_policy_transaction)
    BY <1>1, <1>2, <1>7, <2>2, NativeFailureTrue DEF RecordLocalNative, NativeFailed
  <2> QED BY <1>7, <2>1, <2>2 DEF RecordLocalNative
<1> QED BY <1>3, <1>4, <1>5, <1>6, <1>7

(* The external transaction is asked for, verified and recorded as the     *)
(* snapshots show the router.                                              *)
LEMMA ExternalNativeTrue ==
  ASSUME Inductive, Truthful,
         \/ ExternalPreState \/ ExternalBuildPacket \/ ExternalPlanned \/ ExternalPacketLost
         \/ ExternalDelivery \/ ExternalRunning \/ ExternalSave \/ ExternalSaved
  PROVE  Truthful'
<1>1. ExternalNative
  BY DEF ExternalPreState, ExternalBuildPacket, ExternalPlanned, ExternalPacketLost,
     ExternalDelivery, ExternalRunning, ExternalSave, ExternalSaved, PacketOpen
<1>2. /\ pc = "native" /\ pc # "idle" /\ pc \in Located /\ mem = disk /\ disk # NoReceipt
      /\ mem \in Receipt /\ True(mem) /\ StageDone(mem, post_reboot_proof)
      /\ ~StageDone(mem, native_proxy_policy_transaction)
      /\ manifest = mem.endpoint_manifest /\ Transport # "local-ndmc"
      /\ mem.native_transaction \in NativeTransaction
      /\ mem.stages[native_proxy_policy_transaction].status # "SKIPPED"
      /\ outcome \notin Asking
  <2>1. NativeOpen /\ Transport # "local-ndmc"
    BY <1>1 DEF ExternalNative
  <2>2. mem \in Receipt /\ True(mem)
    BY <2>1, NativeStageOpen
  <2>3. mem.native_transaction \in NativeTransaction
    BY <2>2 DEF Receipt
  <2> QED BY <2>1, <2>2, <2>3, NativeStageOpen DEF NativeOpen, True, NativeTrue
<1>3. Quiet => UNCHANGED <<router, ran, manifest>>
  BY DEF Quiet, world
<1>4. ASSUME NEW why, NEW st, st = mem.native_transaction.status,
             why = "EXTERNAL_NATIVE_TRANSACTION_DELIVERY_REQUIRED" => st = "PLANNED",
             why = "EXTERNAL_NATIVE_SAVE_REQUIRED" => st = "RUNNING_VERIFIED",
             Handoff(why), UNCHANGED <<router, ran>>
      PROVE  Truthful'
  <2>1. CASE why \notin Asking
    BY <1>2, <1>4, <2>1, HandoffTrue
  <2>2. CASE why \in Asking
    <3>1. disk' = disk /\ pc' = "idle" /\ mem' = NoReceipt /\ result' = "none"
          /\ outcome' \in {why, "refused"}
      BY <1>2, <1>4 DEF Handoff, WriteAndStop, Stop
    <3>2. True(disk)'
      BY <1>2, <1>4, <3>1, TrueUnmoved
    <3>3. Asked'
      BY <1>2, <1>4, <3>1 DEF Asked
    <3> QED BY <3>1, <3>2, <3>3 DEF Truthful, Reported, Locked, Located, Owner
  <2> QED BY <2>1, <2>2
<1>5. ASSUME NEW q, NEW next, next \in {"native", "dns"}, WriteThen(q, next), Quiet,
             NativeTrue(q), q.endpoint_manifest = mem.endpoint_manifest,
             \A s \in Stage \ {native_proxy_policy_transaction} : q.stages[s] = mem.stages[s]
      PROVE  Truthful'
  <2>1. /\ \A s \in INSTALLATION_STAGES : q.stages[s] = mem.stages[s]
        /\ q.stages[post_reboot_proof] = mem.stages[post_reboot_proof]
    BY <1>5, StageNumbers
  <2>2. True(q)
    BY <1>2, <1>5, <2>1, NativeWriteTrue
  <2>3. StageDone(q, post_reboot_proof)
    BY <1>2, <2>1 DEF StageDone
  <2> QED BY <1>2, <1>3, <1>5, <2>2, <2>3, WriteThenTrue
<1>6. CASE ExternalPreState
  BY <1>2, <1>3, <1>6, HandoffTrue DEF ExternalPreState, Asking
<1>7. CASE ExternalBuildPacket
  <2>1. CASE NativeFailed
    BY <1>2, <1>7, <2>1, NativeFailureTrue DEF ExternalBuildPacket
  <2>2. CASE result' = "packet" /\ UNCHANGED <<disk, mem, pc, run, outcome>>
    <3>1. UNCHANGED <<router, ran, manifest>>
      BY <1>7 DEF ExternalBuildPacket
    <3>2. True(disk)'
      BY <1>2, <2>2, <3>1, TrueUnmoved
    <3>3. Reported'
      BY <1>2, <2>2, <3>1 DEF Reported, StageDone, Owner
    <3>4. Asked' /\ Locked'
      BY <1>2, <2>2, <3>1 DEF Asked, Asking, Locked, StageDone
    <3> QED BY <3>2, <3>3, <3>4 DEF Truthful
  <2> QED BY <1>7, <2>1, <2>2 DEF ExternalBuildPacket
<1>8. CASE ExternalPlanned
  <2> DEFINE nt == [status |-> "PLANNED", packet |-> packet,
                    write_required |-> packet.write_required, pre_epoch |-> mem.state_epoch]
             q == [mem EXCEPT !.native_transaction = nt]
  <2>1. nt.status = "PLANNED"
    OBVIOUS
  <2>2. WriteThen(q, "native") /\ Quiet
    BY <1>8 DEF ExternalPlanned
  <2> HIDE DEF nt
  <2>3. /\ q.native_transaction = nt /\ q.stages = mem.stages
        /\ q.endpoint_manifest = mem.endpoint_manifest
    BY <1>2 DEF Receipt
  <2> HIDE DEF q
  <2>4. NativeTrue(q)
    BY <1>2, <2>1, <2>3 DEF NativeTrue, StageDone
  <2> QED BY <1>5, <2>2, <2>3, <2>4
<1>9. CASE ExternalPacketLost
  BY <1>2, <1>3, <1>9, NativeFailureTrue DEF ExternalPacketLost
<1>10. CASE ExternalDelivery
  BY <1>3, <1>4, <1>10 DEF ExternalDelivery, PacketOpen, NativeStatus
<1>11. CASE ExternalRunning
  <2>1. CASE NativeFailed
    BY <1>2, <1>3, <1>11, <2>1, NativeFailureTrue DEF ExternalRunning
  <2>2. CASE /\ router.running = manifest
             /\ WriteThen([mem EXCEPT !.native_transaction.status = "RUNNING_VERIFIED"], "native")
    <3> DEFINE nt == [mem.native_transaction EXCEPT !.status = "RUNNING_VERIFIED"]
               q == [mem EXCEPT !.native_transaction = nt]
    <3>1. nt.status = "RUNNING_VERIFIED"
      <4> DEFINE old == mem.native_transaction
      <4>1. old \in NativeTransaction
        BY <1>2
      <4> HIDE DEF old
      <4> QED BY <4>1 DEF NativeTransaction, old
    <3>2. q = [mem EXCEPT !.native_transaction.status = "RUNNING_VERIFIED"]
      OBVIOUS
    <3> HIDE DEF nt
    <3>3. /\ q.native_transaction = nt /\ q.stages = mem.stages
          /\ q.endpoint_manifest = mem.endpoint_manifest
      BY <1>2 DEF Receipt
    <3> HIDE DEF q
    <3>4. NativeTrue(q)
      BY <1>2, <2>2, <3>1, <3>3 DEF NativeTrue, StageDone
    <3> QED BY <1>5, <1>11, <2>2, <3>2, <3>3, <3>4 DEF ExternalRunning
  <2> QED BY <1>11, <2>1, <2>2 DEF ExternalRunning
<1>12. CASE ExternalSave
  BY <1>3, <1>4, <1>12 DEF ExternalSave, PacketOpen, NativeStatus
<1>13. CASE ExternalSaved
  <2>1. CASE NativeFailed
    BY <1>2, <1>3, <1>13, <2>1, NativeFailureTrue DEF ExternalSaved
  <2>2. CASE /\ mem.native_transaction.write_required => router.startup = manifest
             /\ WriteThen(ExternalNativeReceipt, "dns")
    <3> DEFINE S == {native_proxy_policy_transaction}
               done == MarkStages(mem, S, "PASS")
               nt == [done.native_transaction EXCEPT !.status = "PASS"]
               with == [done EXCEPT !.native_transaction = nt]
               q == ExternalNativeReceipt
    <3>1. mem.native_transaction.status = "RUNNING_VERIFIED"
      BY <1>13 DEF ExternalSaved, PacketOpen, NativeStatus
    <3>2. router.running = mem.endpoint_manifest
      BY <1>2, <3>1 DEF True, NativeTrue
    <3>3. S \in SUBSET Stage /\ "PASS" \in Status
      BY StageNumbers DEF Status
    <3>4. /\ done \in Receipt
          /\ \A s \in Stage : done.stages[s] =
               IF s \in S THEN [status |-> "PASS", epoch |-> mem.state_epoch] ELSE mem.stages[s]
          /\ done.endpoint_manifest = mem.endpoint_manifest
          /\ done.native_transaction = mem.native_transaction
      <4>1. /\ done \in Receipt
            /\ \A s \in Stage : done.stages[s] =
                 IF s \in S THEN [status |-> "PASS", epoch |-> mem.state_epoch]
                 ELSE mem.stages[s]
        BY <1>2, <3>3, MarkStagesFields
      <4>2. /\ done.endpoint_manifest = mem.endpoint_manifest
            /\ done.native_transaction = mem.native_transaction
        BY <1>2, <3>3, MarkedRest
      <4> HIDE DEF done
      <4> QED BY <4>1, <4>2
    <3>5. q = Verified(with, {"native_routing"})
      BY DEF ExternalNativeReceipt
    <3> HIDE DEF done, q
    <3>6. nt.status = "PASS" /\ nt.write_required = mem.native_transaction.write_required
      <4> DEFINE old == mem.native_transaction
      <4>1. old \in NativeTransaction
        BY <1>2
      <4>2. nt = [old EXCEPT !.status = "PASS"]
        BY <3>4
      <4> HIDE DEF old, nt
      <4> QED BY <4>1, <4>2 DEF NativeTransaction, old
    <3> HIDE DEF nt
    <3>7. /\ q.stages = done.stages /\ q.native_transaction = nt
          /\ q.endpoint_manifest = mem.endpoint_manifest
      BY <3>4, <3>5 DEF Verified, Receipt
    <3>8. /\ \A s \in Stage \ {native_proxy_policy_transaction} : q.stages[s] = mem.stages[s]
          /\ q.stages[native_proxy_policy_transaction].status = "PASS"
      BY <3>4, <3>7, StageNumbers
    <3>9. q.stages[post_reboot_proof] = mem.stages[post_reboot_proof]
      BY <3>8, StageNumbers
    <3>10. NativeTrue(q)
      BY <1>2, <2>2, <3>2, <3>6, <3>7, <3>8, <3>9 DEF NativeTrue, StageDone
    <3> QED BY <1>5, <1>13, <2>2, <3>7, <3>8, <3>10 DEF ExternalSaved, q
  <2> QED BY <1>13, <2>1, <2>2 DEF ExternalSaved
<1> QED BY <1>6, <1>7, <1>8, <1>9, <1>10, <1>11, <1>12, <1>13

-----------------------------------------------------------------------------
(* Acceptance, the operator, kills *)

(* The steps from the DNS gate on claim nothing of the router.             *)
LEMMA AcceptanceTrue ==
  ASSUME Inductive, Truthful, Acceptance
  PROVE  Truthful'
<1>1. /\ pc \in {"dns", "client", "final"} /\ pc # "idle" /\ pc \in Located
      /\ result = "none" /\ mem \in Receipt /\ Quiet
  <2>1. pc \in {"dns", "client", "final"} /\ Quiet
    BY DEF Acceptance, PassDns, DnsHandoff, RecordDns, ClientStage, FinalResult, DnsOpen
  <2> QED BY <2>1, RunHoldsReceipt DEF Truthful, Reported, Owner, Located, Label
<1>2. UNCHANGED <<router, ran, manifest>>
  BY <1>1 DEF Quiet, world
<1>3. ASSUME NEW s \in {protected_dns_gate, selected_client_acceptance, final_result}, NEW q,
             q.stages = MarkStages(mem, {s}, "PASS").stages,
             q.native_transaction = MarkStages(mem, {s}, "PASS").native_transaction,
             q.endpoint_manifest = MarkStages(mem, {s}, "PASS").endpoint_manifest
      PROVE  Kept(mem, q) /\ Kept(disk, q)
  <2>1. /\ {s} \in SUBSET Stage /\ "PASS" \in Status /\ {s} \cap INSTALLATION_STAGES = {}
        /\ post_reboot_proof \notin {s} /\ native_proxy_policy_transaction \notin {s}
    BY StageNumbers DEF Status
  <2> QED BY <1>1, <1>3, <2>1, MarkedRest, KeptMarked
<1>4. ASSUME NEW s \in {protected_dns_gate, selected_client_acceptance, final_result}
      PROVE  MarkStages(mem, {s}, "PASS") \in Receipt
  <2>1. {s} \in SUBSET Stage /\ "PASS" \in Status
    BY StageNumbers DEF Status
  <2> QED BY <1>1, <2>1, MarkStagesFields
<1>5. CASE PassDns
  BY <1>1, <1>2, <1>5, GoOnTrue DEF PassDns
<1>6. CASE DnsHandoff
  BY <1>1, <1>2, <1>6, HandoffTrue DEF DnsHandoff, Asking
<1>7. CASE RecordDns
  <2> DEFINE done == MarkStages(mem, {protected_dns_gate}, "PASS")
             q == DnsReceipt
  <2>1. done \in Receipt
    BY <1>4
  <2>2. q = Verified([done EXCEPT !.dns_gate_status = "PASS"], {"dns"})
    BY DEF DnsReceipt
  <2> HIDE DEF done, q
  <2>3. /\ q.stages = done.stages /\ q.native_transaction = done.native_transaction
        /\ q.endpoint_manifest = done.endpoint_manifest
    BY <2>1, <2>2 DEF Verified, Receipt
  <2>4. Kept(mem, q)
    BY <1>3, <2>3 DEF done
  <2> QED BY <1>1, <1>2, <1>7, <2>4, KeptThenTrue DEF RecordDns, q
<1>8. CASE ClientStage
  <2>1. CASE GoOn("final")
    BY <1>1, <1>2, <2>1, GoOnTrue
  <2>2. CASE Handoff("CLIENT_FUNCTIONAL_VERIFICATION_REQUIRED")
    BY <1>1, <1>2, <2>2, HandoffTrue DEF Asking
  <2> DEFINE done == MarkStages(mem, {selected_client_acceptance}, "PASS")
             q == Verified(done, {"client_domain_https"})
  <2>3. CASE WriteThen(q, "final")
    <3>1. done \in Receipt
      BY <1>4
    <3> HIDE DEF done
    <3>2. /\ q.stages = done.stages /\ q.native_transaction = done.native_transaction
          /\ q.endpoint_manifest = done.endpoint_manifest
      BY <3>1 DEF Verified, Receipt
    <3> HIDE DEF q
    <3>3. Kept(mem, q)
      BY <1>3, <3>2 DEF done
    <3> QED BY <1>1, <1>2, <2>3, <3>3, KeptThenTrue
  <2> QED BY <1>8, <2>1, <2>2, <2>3 DEF ClientStage
<1>9. CASE FinalResult
  <2>1. Kept(disk, MarkStages(mem, {final_result}, "PASS"))
    BY <1>3
  <2> QED BY <1>1, <1>2, <1>9, <2>1, WriteAndStopTrue DEF FinalResult, Asking
<1> QED BY <1>1, <1>5, <1>6, <1>7, <1>8, <1>9 DEF Acceptance

(* Commands begin with what is on disk, and between two runs the router    *)
(* changes only where the receipt waits for it.                            *)
LEMMA OperatorTrue ==
  ASSUME Inductive, Truthful, Operator
  PROVE  Truthful'
<1>1. /\ pc = "idle" /\ mem = NoReceipt /\ result = "none"
      /\ router \in [running : Manifest \cup {NoManifest}, startup : Manifest \cup {NoManifest}]
  BY DEF Operator, Command, Apply, Resume, Deliver, SaveConfiguration, RemovePacket, LosePacket,
     RestorePacket, RestoreManifest, ExportManifest, ReplaceManifest, Idle, Inductive, TypeOK
<1>2. ASSUME NEW mode, NEW ev, NEW snaps, NEW r, True(r), Begin(mode, ev, snaps, r)
      PROVE  Truthful'
  <2>1. /\ disk' = r /\ mem' = r /\ pc' = FirstLabel /\ outcome' = "running" /\ result' = "none"
        /\ UNCHANGED <<router, ran>>
    BY <1>1, <1>2 DEF Begin, world
  <2>2. FirstLabel \in {"preflight", "runtime"}
    BY DEF FirstLabel
  <2>3. True(disk)'
    BY <1>2, <2>1, TrueUnmoved
  <2> QED BY <2>1, <2>2, <2>3 DEF Truthful, Reported, Asked, Locked, Located, Owner
<1>3. ASSUME NEW ev, NEW snaps, NEW authorize \in BOOLEAN, Apply(ev, snaps, authorize)
      PROVE  Truthful'
  <2> DEFINE r == InitialReceipt(authorize)
  <2>1. /\ \A s \in Stage : ~StageDone(r, s) /\ r.stages[s].status = "PENDING"
        /\ r.native_transaction.status = "PENDING"
    BY DEF InitialReceipt, StageDone, Pending, EmptyNativeTransaction
  <2>2. Begin("apply", ev, snaps, r)
    BY <1>3 DEF Apply
  <2> HIDE DEF r
  <2>3. NativeTrue(r)
    BY <2>1, StageNumbers DEF NativeTrue
  <2>4. Credited(r)
    BY <2>1, OwnerStages DEF Credited
  <2> QED BY <1>2, <2>2, <2>3, <2>4 DEF True
<1>4. ASSUME NEW ev, NEW snaps, NEW authorize \in BOOLEAN, Resume(ev, snaps, authorize)
      PROVE  Truthful'
  <2>1. disk \in Receipt /\ Sound(disk) /\ True(disk)
    BY <1>4 DEF Resume, Inductive, TypeOK, Truthful
  <2> DEFINE q == [disk EXCEPT !.reboot_authorized = @ \/ authorize]
  <2>2. /\ q.stages = disk.stages /\ q.native_transaction = disk.native_transaction
        /\ q.endpoint_manifest = disk.endpoint_manifest
    BY <2>1 DEF Receipt
  <2>3. Begin("resume", ev, snaps, q)
    BY <1>4 DEF Resume
  <2> HIDE DEF q
  <2>4. Kept(disk, q) /\ InOrder(q)
    BY <2>1, <2>2 DEF Kept, Sound, InOrder, StageDone
  <2> QED BY <1>2, <2>1, <2>3, <2>4, KeptTrue
<1>5. ASSUME UNCHANGED <<disk, mem, pc, run, result, outcome, ran>>,
             disk # NoReceipt => True(disk)'
      PROVE  Truthful'
  BY <1>1, <1>5 DEF Truthful, Reported, Asked, Locked, Located, Owner
<1>6. ASSUME UNCHANGED <<disk, mem, pc, run, result, outcome, ran>>, UNCHANGED router
      PROVE  Truthful'
  BY <1>5, <1>6, TrueUnmoved DEF Truthful
<1>7. ASSUME UNCHANGED <<disk, mem, pc, run, result, outcome, ran>>, disk # NoReceipt,
             \/ disk.native_transaction.status = "PLANNED"
             \/ /\ disk.native_transaction.status = "RUNNING_VERIFIED"
                /\ router'.running = router.running
      PROVE  Truthful'
  <2>1. True(disk)
    BY <1>7 DEF Truthful
  <2>2. NativeTrue(disk)'
    BY <1>7, <2>1 DEF True, NativeTrue
  <2>3. Credited(disk) => Credited(disk)'
    BY <1>7 DEF Credited
  <2> QED BY <1>5, <1>7, <2>1, <2>2, <2>3 DEF True
<1>8. Idle => UNCHANGED <<disk, mem, pc, run, result, outcome, ran>>
  BY DEF Idle
<1>9. CASE Deliver
  BY <1>7, <1>8, <1>9 DEF Deliver, Truthful, Asked
<1>10. CASE SaveConfiguration
  BY <1>1, <1>7, <1>8, <1>10 DEF SaveConfiguration, Truthful, Asked
<1>11. CASE \/ RemovePacket \/ LosePacket \/ RestorePacket \/ RestoreManifest
            \/ \E m \in Manifest : ExportManifest(m)
            \/ \E m \in Manifest \cup {NoManifest} : ReplaceManifest(m)
  BY <1>6, <1>8, <1>11
     DEF RemovePacket, LosePacket, RestorePacket, RestoreManifest, ExportManifest, ReplaceManifest
<1> QED BY <1>3, <1>4, <1>9, <1>10, <1>11 DEF Operator, Command

(* Every receipt on disk is true of the owners and of the router, whatever *)
(* is killed, fails or is taken back in between.                           *)
THEOREM ReceiptIsTrue == Spec => []Truthful
<1>1. Init => Truthful
  BY DEF Init, Truthful, Reported, Asked, Locked, Located, Owner
<1>2. Inductive /\ Truthful /\ [Next]_vars => Truthful'
  <2> SUFFICES ASSUME Inductive, Truthful, [Next]_vars PROVE Truthful'
    OBVIOUS
  <2>1. CASE Installation
    BY <2>1, PreflightTrue, OwnerTrue, RuntimeTrue DEF Installation
  <2>2. CASE ComponentAndReboot
    BY <2>2, ComponentTrue, RebootTrue DEF ComponentAndReboot
  <2>3. CASE NativeTransactionStage
    BY <2>3, LocalNativeTrue, ExternalNativeTrue DEF NativeTransactionStage
  <2>4. CASE Acceptance
    BY <2>4, AcceptanceTrue
  <2>5. CASE Operator
    BY <2>5, OperatorTrue
  <2>6. CASE Kill
    BY <2>6, StopTrue DEF Kill, world, Asking
  <2>7. CASE UNCHANGED vars
    <3>1. /\ UNCHANGED <<disk, mem, pc, result, outcome, manifest, router, ran>>
      BY <2>7 DEF vars
    <3>2. disk # NoReceipt => True(disk)'
      BY <3>1, TrueUnmoved DEF Truthful
    <3>3. Reported'
      BY <3>1 DEF Truthful, Reported, StageDone
    <3>4. Asked' /\ Locked'
      BY <3>1 DEF Truthful, Asked, Locked, StageDone
    <3> QED BY <3>1, <3>2, <3>3, <3>4 DEF Truthful
  <2> QED BY <2>1, <2>2, <2>3, <2>4, <2>5, <2>6, <2>7 DEF Next, Process
<1> QED BY <1>1, <1>2, InductiveInvariant, PTL DEF Spec

(* A local stage on record was carried out by its owner in the epoch the   *)
(* receipt gives it, kills between the effect and the write included.      *)
THEOREM StagesWereRun == Spec => []RecordedMeansRan
<1>1. Truthful => RecordedMeansRan
  BY DEF Truthful, True, Credited, RecordedMeansRan, OnDisk
<1> QED BY <1>1, ReceiptIsTrue, PTL

(* A done native stage means a router that runs, and after a write also    *)
(* starts with, the configuration of the manifest the receipt has locked.  *)
THEOREM RouterConfigured == Spec => []NativeConfigured
<1>1. Inductive /\ Truthful => NativeConfigured
  <2> SUFFICES ASSUME Inductive, Truthful, OnDisk(native_proxy_policy_transaction)
               PROVE  /\ router.running = disk.endpoint_manifest
                      /\ disk.native_transaction.write_required =>
                           router.startup = disk.endpoint_manifest
    BY DEF NativeConfigured
  <2>1. NativeTrue(disk) /\ Writable(disk)
    BY DEF Truthful, True, Inductive, OnDisk
  <2>2. disk.stages[native_proxy_policy_transaction].status = "PASS"
    BY <2>1 DEF OnDisk, StageDone, NativeTrue
  <2>3. disk.native_transaction.status = "PASS"
    BY <2>1, <2>2 DEF Writable, Valid
  <2> QED BY <2>1, <2>3 DEF NativeTrue
<1> QED BY <1>1, InductiveInvariant, ReceiptIsTrue, PTL

(* The native configuration changes only while every earlier stage, the    *)
(* post-reboot proof included, is done on disk: a subprocess runs at an    *)
(* open native stage, and an operator acts on a receipt that waits for it. *)
THEOREM RouterChangesLate == Spec => NativeOnlyAfterProof
<1> DEFINE Ready == \A s \in Stage : s < native_proxy_policy_transaction => OnDisk(s)
<1>1. Inductive /\ Truthful /\ [Next]_vars => [Ready]_(router.running)
  <2> SUFFICES ASSUME Inductive, Truthful, Next, router.running' # router.running
               PROVE  Ready
    BY DEF vars
  <2>1. CASE NativeOpen
    BY <2>1, NativeStageOpen DEF OnDisk
  <2>2. CASE ~NativeOpen
    <3>1. router' # router
      OBVIOUS
    <3>2. Deliver \/ SaveConfiguration
      BY <2>2, <3>1 DEF Next, Process, Installation, ComponentAndReboot, NativeTransactionStage,
         Acceptance, Operator, Command, Kill, PassPreflight, PreflightHandoff, PreflightEvidence,
         RunPreflight, RecordPreflight, PassOwner, RunOwner, RecordOwner, RuntimeError, KeepRuntime,
         RuntimeHandoff, RecordRuntime, AcceptAtComponent, InspectComponent, PassReboot, SkipReboot,
         ProveReboot, RebootHandoff, PassNative, LocalNativePlan, LocalNativeSave,
         LocalNativeRollback, RecordLocalNative, LocalNative, ExternalNative, ExternalPreState,
         ExternalBuildPacket, ExternalPlanned, ExternalPacketLost, ExternalDelivery,
         ExternalRunning, ExternalSave, ExternalSaved, PacketOpen, PassDns, DnsHandoff, RecordDns,
         ClientStage, FinalResult, Apply, Resume, Begin, RemovePacket, LosePacket, RestorePacket,
         RestoreManifest, ExportManifest, ReplaceManifest, Quiet, world
    <3>3. disk # NoReceipt /\ disk.native_transaction.status \in {"PLANNED", "RUNNING_VERIFIED"}
      BY <3>2 DEF Deliver, SaveConfiguration, Truthful, Asked
    <3>4. StageDone(disk, post_reboot_proof) /\ Sound(disk)
      BY <3>3 DEF Truthful, True, NativeTrue, Inductive
    <3> SUFFICES ASSUME NEW s \in Stage, s < native_proxy_policy_transaction
                 PROVE  StageDone(disk, s)
      BY <3>3 DEF OnDisk
    <3>5. s = post_reboot_proof \/ s < post_reboot_proof
      BY StageNumbers
    <3> QED BY <3>4, <3>5, StageNumbers DEF Sound, InOrder
  <2> QED BY <2>1, <2>2
<1> QED BY <1>1, InductiveInvariant, ReceiptIsTrue, PTL DEF Spec, NativeOnlyAfterProof

-----------------------------------------------------------------------------
(* The receipt as a ledger *)

(* The profile, the generated configuration and the plan are recorded      *)
(* together and taken back together.                                       *)
Together(r) == StageDone(r, protected_profile_source) => StageDone(r, strict_plan)

(* From r to q no done stage is lost within a state epoch, and a stage that*)
(* is new or renewed has the epoch of q.                                   *)
Grown(r, q) ==
  /\ q.state_epoch \in {r.state_epoch, r.state_epoch + 1}
  /\ \A s \in Stage : StageDone(q, s) =>
       \/ q.stages[s].epoch = q.state_epoch
       \/ StageDone(r, s) /\ q.stages[s].epoch = r.stages[s].epoch
  /\ q.state_epoch = r.state_epoch =>
       \A s \in Stage : StageDone(r, s) => StageDone(q, s)
  /\ Together(r) => Together(q)

(* An unchanged receipt has grown by nothing.                             *)
LEMMA GrownSelf ==
  ASSUME NEW r
  PROVE  Grown(r, r)
BY DEF Grown

(* Growth is transitive when its second part stays within an epoch.        *)
LEMMA GrownChain ==
  ASSUME NEW r \in Receipt, NEW m \in Receipt, NEW q, Grown(r, m), Grown(m, q),
         q.state_epoch = m.state_epoch
  PROVE  Grown(r, q)
<1>1. r.state_epoch \in Nat /\ m.state_epoch \in Nat
  BY DEF Receipt
<1>2. \A s \in Stage : StageDone(q, s) =>
        \/ q.stages[s].epoch = q.state_epoch
        \/ StageDone(r, s) /\ q.stages[s].epoch = r.stages[s].epoch
  BY DEF Grown
<1>3. q.state_epoch = r.state_epoch => \A s \in Stage : StageDone(r, s) => StageDone(q, s)
  BY DEF Grown
<1> QED BY <1>2, <1>3 DEF Grown

(* Marks of stages within an epoch: a success always, a failure only of    *)
(* stages that are open.                                                   *)
LEMMA GrownMark ==
  ASSUME NEW r \in Receipt, NEW S \in SUBSET Stage, NEW status \in Status, NEW q,
         q.stages = MarkStages(r, S, status).stages, q.state_epoch = r.state_epoch,
         status \in {"PASS", "SKIPPED"} \/ \A s \in S : ~StageDone(r, s),
         protected_profile_source \in S /\ status \in {"PASS", "SKIPPED"} => strict_plan \in S
  PROVE  Grown(r, q)
<1>1. \A s \in Stage : q.stages[s] =
        IF s \in S THEN [status |-> status, epoch |-> r.state_epoch] ELSE r.stages[s]
  BY MarkStagesFields
<1>2. \A s \in Stage : StageDone(q, s) <=>
        IF s \in S THEN status \in {"PASS", "SKIPPED"} ELSE StageDone(r, s)
  BY <1>1 DEF StageDone
<1>3. \A s \in Stage : StageDone(q, s) =>
        \/ q.stages[s].epoch = q.state_epoch
        \/ StageDone(r, s) /\ q.stages[s].epoch = r.stages[s].epoch
  BY <1>1, <1>2
<1>4. \A s \in Stage : StageDone(r, s) => StageDone(q, s)
  BY <1>2
<1>5. Together(r) => Together(q)
  BY <1>2, <1>4, StageNumbers DEF Together
<1> QED BY <1>3, <1>4, <1>5 DEF Grown

(* Accepting evidence takes stages back only with a new epoch.             *)
LEMMA GrownAccepted ==
  ASSUME NEW r \in Receipt, Sound(r), NEW ev \in Evidence, Acceptable(r, ev)
  PROVE  Grown(r, Accepted(r, ev))
<1>1. CASE Known(r, ev)
  BY <1>1, GrownSelf DEF Accepted
<1>2. CASE ~Known(r, ev) /\ ev.epoch = r.state_epoch
  <2>1. /\ Accepted(r, ev).stages = r.stages /\ Accepted(r, ev).state_epoch = r.state_epoch
    BY <1>2 DEF Accepted, Receipt
  <2> QED BY <2>1 DEF Grown, Together, StageDone
<1>3. CASE ~Known(r, ev) /\ ev.epoch # r.state_epoch
  <2> DEFINE q == Accepted(r, ev)
  <2>1. PICK cut \in (1..18) \ {generate, strict_plan, post_reboot_proof} :
          /\ q.state_epoch = ev.epoch
          /\ \A s \in Stage : q.stages[s] = IF s >= cut THEN Pending ELSE r.stages[s]
    BY <1>3, AcceptedCut
  <2> HIDE DEF q
  <2>2. q.state_epoch = r.state_epoch + 1 /\ r.state_epoch \in Nat
    BY <1>3, <2>1 DEF Acceptable, Receipt
  <2>3. \A s \in Stage : StageDone(q, s) <=> ~(s >= cut) /\ StageDone(r, s)
    BY <2>1 DEF StageDone, Pending
  <2>4. Together(r) => Together(q)
    BY <2>1, <2>3, StageNumbers DEF Together
  <2>5. Grown(r, q)
    BY <2>1, <2>2, <2>3, <2>4 DEF Grown
  <2> QED BY <2>5 DEF q
<1> QED BY <1>1, <1>2, <1>3

(* What a run holds has grown out of the receipt on disk.                  *)
LEMMA GrownInMemory ==
  ASSUME Inductive, pc # "idle"
  PROVE  Grown(disk, mem)
<1>1. /\ disk \in Receipt /\ Sound(disk) /\ run \in Run /\ mem # NoReceipt
  BY RunHoldsReceipt, ModeAssumption
<1>2. CASE mem = disk
  BY <1>2, GrownSelf
<1>3. CASE /\ Evident /\ Acceptable(disk, run.evidence)
           /\ mem = Accepted(disk, run.evidence)
  <2>1. run.evidence \in Evidence
    BY <1>1, <1>3 DEF Run, Evident
  <2> QED BY <1>1, <1>3, <2>1, GrownAccepted
<1> QED BY <1>1, <1>2, <1>3 DEF Inductive, InStep

-----------------------------------------------------------------------------
(* Ledgers *)

(* The done stages of a receipt in order are the first ones.               *)
LEMMA DoneFirst ==
  ASSUME NEW r, InOrder(r)
  PROVE  \E n \in 0..17 : /\ {s \in Stage : StageDone(r, s)} = 1..n
                          /\ Cardinality({s \in Stage : StageDone(r, s)}) = n
<1> DEFINE D(s) == StageDone(r, s)
<1>1. \A s \in 1..17, t \in 1..17 : s < t /\ D(t) => D(s)
  BY StageNumbers DEF InOrder
<1> HIDE DEF D
<1>2. \E n \in 0..17 : (n = 17 \/ ~D(n + 1)) /\ (n = 0 \/ D(n))
  <2> SUFFICES ASSUME \A n \in 0..17 : ~((n = 17 \/ ~D(n + 1)) /\ (n = 0 \/ D(n)))
               PROVE  FALSE
    OBVIOUS
  <2>1. D(0 + 1) OBVIOUS
  <2>2. D(1 + 1) BY <2>1
  <2>3. D(2 + 1) BY <2>2
  <2>4. D(3 + 1) BY <2>3
  <2>5. D(4 + 1) BY <2>4
  <2>6. D(5 + 1) BY <2>5
  <2>7. D(6 + 1) BY <2>6
  <2>8. D(7 + 1) BY <2>7
  <2>9. D(8 + 1) BY <2>8
  <2>10. D(9 + 1) BY <2>9
  <2>11. D(10 + 1) BY <2>10
  <2>12. D(11 + 1) BY <2>11
  <2>13. D(12 + 1) BY <2>12
  <2>14. D(13 + 1) BY <2>13
  <2>15. D(14 + 1) BY <2>14
  <2>16. D(15 + 1) BY <2>15
  <2>17. D(16 + 1) BY <2>16
  <2> QED BY <2>17
<1>3. PICK n \in 0..17 : (n = 17 \/ ~D(n + 1)) /\ (n = 0 \/ D(n))
  BY <1>2
<1>4. \A s \in 1..17 : D(s) <=> s <= n
  <2> SUFFICES ASSUME NEW s \in 1..17
               PROVE  D(s) <=> s <= n
    OBVIOUS
  <2>1. CASE s <= n
    BY <1>1, <1>3, <2>1
  <2>2. CASE s > n
    <3>1. n # 17 /\ n + 1 \in 1..17 /\ (s = n + 1 \/ n + 1 < s)
      BY <2>2
    <3> QED BY <1>1, <1>3, <2>2, <3>1
  <2> QED BY <2>1, <2>2
<1>5. {s \in Stage : StageDone(r, s)} = 1..n
  BY <1>4, StageNumbers DEF D
<1>6. Cardinality(1..n) = n
  <2>1. 1 \in Int /\ n \in Int
    OBVIOUS
  <2>2. Cardinality(1..n) = IF 1 > n THEN 0 ELSE n - 1 + 1
    BY <2>1, FS_Interval, Zenon
  <2> QED BY <2>2
<1> QED BY <1>5, <1>6

(* A write that lets the receipt grow is a step of the ledger.             *)
LEMMA GrowthIsLedgerStep ==
  ASSUME disk \in Receipt, disk # NoReceipt, disk' \in Receipt, disk' # NoReceipt,
         InOrder(disk), InOrder(disk'), Grown(disk, disk')
  PROVE  Ledger!Next
<1> DEFINE from == {s \in Stage : StageDone(disk, s)}
           to   == {s \in Stage : StageDone(disk', s)}
<1>1. PICK n \in 0..17 : from = 1..n /\ Cardinality(from) = n
  BY DoneFirst
<1>2. PICK m \in 0..17 : to = 1..m /\ Cardinality(to) = m
  BY DoneFirst
<1>3. DoneOnDisk = from /\ DoneOnDisk' = to
  BY DEF DoneOnDisk, OnDisk, StageDone
<1> DEFINE old == [i \in 1..n |-> disk.stages[i].epoch]
           new == [i \in 1..m |-> disk'.stages[i].epoch]
<1>4. /\ [i \in 1..Cardinality(DoneOnDisk) |-> disk.stages[i].epoch] = old
      /\ [i \in 1..Cardinality(DoneOnDisk) |-> disk.stages[i].epoch]' = new
  BY <1>1, <1>2, <1>3
<1>5. Len(old) = n /\ Len(new) = m
  BY <1>1, <1>2
<1>6. /\ \A s \in Stage : StageDone(disk, s) <=> s \in 1..n
      /\ \A s \in Stage : StageDone(disk', s) <=> s \in 1..m
  BY <1>1, <1>2
<1>7. \A i \in 1..m : new[i] = disk'.state_epoch \/ (i <= n /\ new[i] = old[i])
  <2> SUFFICES ASSUME NEW i \in 1..m
               PROVE  new[i] = disk'.state_epoch \/ (i <= n /\ new[i] = old[i])
    OBVIOUS
  <2>1. i \in Stage /\ StageDone(disk', i)
    BY <1>6, StageNumbers
  <2>2. \/ disk'.stages[i].epoch = disk'.state_epoch
        \/ StageDone(disk, i) /\ disk'.stages[i].epoch = disk.stages[i].epoch
    BY <2>1 DEF Grown
  <2> QED BY <1>6, <2>1, <2>2
<1>8. disk'.state_epoch = disk.state_epoch => m \in n..17
  <2> SUFFICES ASSUME disk'.state_epoch = disk.state_epoch
               PROVE  n <= m
    OBVIOUS
  <2>1. CASE n = 0
    BY <2>1
  <2>2. CASE n # 0
    <3>1. n \in Stage /\ StageDone(disk, n)
      BY <1>6, <2>2, StageNumbers
    <3>2. StageDone(disk', n)
      BY <3>1 DEF Grown
    <3> QED BY <1>6, <3>1, <3>2
  <2> QED BY <2>1, <2>2
<1>9. disk'.state_epoch = disk.state_epoch \/ disk'.state_epoch = disk.state_epoch + 1
  BY DEF Grown
<1>10. final_result = 17
  BY StageNumbers
<1> HIDE DEF old, new, from, to
<1>11. CASE disk'.state_epoch = disk.state_epoch
  <2>1. Ledger!Record
    BY <1>4, <1>5, <1>7, <1>8, <1>10, <1>11 DEF Ledger!Record, Ledger!Entry
  <2> QED BY <2>1 DEF Ledger!Next
<1>12. CASE disk'.state_epoch = disk.state_epoch + 1
  <2>1. Ledger!OpenEpoch
    BY <1>4, <1>5, <1>7, <1>10, <1>12 DEF Ledger!OpenEpoch, Ledger!Entry
  <2> QED BY <2>1 DEF Ledger!Next
<1> QED BY <1>9, <1>11, <1>12

-----------------------------------------------------------------------------
(* Every write lets the receipt grow *)

(* A step leaves the receipt on disk as it is, or lets it grow.            *)
Grows == disk' = disk \/ Grown(disk, disk')

(* Marks of stages in memory, written.                                     *)
LEMMA MarkGrows ==
  ASSUME Inductive, pc # "idle", NEW S \in SUBSET Stage, NEW status \in Status, NEW q,
         q.stages = MarkStages(mem, S, status).stages, q.state_epoch = mem.state_epoch,
         status \in {"PASS", "SKIPPED"} \/ \A s \in S : ~StageDone(mem, s),
         protected_profile_source \in S /\ status \in {"PASS", "SKIPPED"} => strict_plan \in S
  PROVE  Grown(disk, q)
<1>1. mem \in Receipt /\ disk \in Receipt /\ Grown(disk, mem)
  BY KeptInMemory, GrownInMemory
<1>2. Grown(mem, q)
  BY <1>1, GrownMark
<1> QED BY <1>1, <1>2, GrownChain

(* A failure of an open stage, written.                                    *)
LEMMA FailGrows ==
  ASSUME Inductive, pc # "idle", NEW s \in Stage, ~StageDone(mem, s), Fail(s)
  PROVE  Grows
<1> DEFINE q == MarkStages(mem, {s}, "FAIL")
<1>1. mem \in Receipt /\ {s} \in SUBSET Stage /\ "FAIL" \in Status
  BY KeptInMemory DEF Status
<1>2. q.state_epoch = mem.state_epoch
  BY <1>1, MarkedRest
<1>3. WriteAndStop(q, "failed") /\ q.stages = MarkStages(mem, {s}, "FAIL").stages
  BY DEF Fail
<1>4. \A t \in {s} : ~StageDone(mem, t)
  OBVIOUS
<1> HIDE DEF q
<1>5. Grown(disk, q)
  BY <1>1, <1>2, <1>3, <1>4, MarkGrows
<1> QED BY <1>3, <1>5 DEF WriteAndStop, Grows

(* The stage that an owner's failure is recorded of is open.               *)
LEMMA FailedStageOpen ==
  ASSUME NEW r, InOrder(r), Together(r), NEW o \in Owner \ {"preflight"}, ~AllDone(r, Recorded[o])
  PROVE  ~StageDone(r, FailedStage(o))
<1>1. Recorded[o] = IF o = "preflight" THEN {1, 2} ELSE IF o = "bootstrap" THEN {3}
                    ELSE IF o = "setup" THEN {4, 5, 6} ELSE IF o = "backup" THEN {7}
                    ELSE IF o = "install" THEN {8} ELSE IF o = "healthcheck" THEN {9} ELSE {10}
  BY StageNumbers DEF Recorded
<1>2. FailedStage(o) \in Recorded[o] /\ \A t \in Recorded[o] : FailedStage(o) <= t
  <2>1. \E s \in Recorded[o] : \A t \in Recorded[o] : s <= t
    BY <1>1
  <2> QED BY <2>1 DEF FailedStage
<1>3. PICK u \in Recorded[o] : ~StageDone(r, u)
  BY DEF AllDone
<1>4. Recorded[o] \in SUBSET Stage
  BY OwnerStages
<1>5. CASE o # "setup"
  BY <1>1, <1>2, <1>3, <1>5
<1>6. CASE o = "setup"
  <2>1. FailedStage(o) = 4 /\ u <= strict_plan /\ u \in Stage
    BY <1>1, <1>2, <1>3, <1>6, StageNumbers
  <2>2. ~StageDone(r, strict_plan)
    BY <1>3, <2>1, StageNumbers DEF InOrder
  <2> QED BY <2>1, <2>2, StageNumbers DEF Together
<1> QED BY <1>5, <1>6

(* The local installation, the external runtime and the operator's apply   *)
(* and resume.                                                             *)
LEMMA InstallationGrows ==
  ASSUME Inductive, Together(disk), Installation
  PROVE  Grows
<1>1. CASE PassPreflight \/ PreflightHandoff \/ PreflightEvidence \/ RunPreflight \/ RecordPreflight
  <2>1. pc = "preflight" /\ pc # "idle" /\ "preflight" \in Owner
    BY <1>1 DEF PassPreflight, PreflightHandoff, PreflightEvidence, RunPreflight, RecordPreflight,
       PreflightNeeded, Owner
  <2>2. /\ mem \in Receipt /\ Sound(mem) /\ run \in Run
        /\ result = "none" => mem = disk
    BY <2>1, RunHoldsReceipt
  <2>3. CASE PassPreflight \/ PreflightHandoff \/ RunPreflight
    BY <2>2, <2>3 DEF PassPreflight, PreflightHandoff, RunPreflight, PreflightNeeded, GoOn, Handoff,
       WriteAndStop, Grows
  <2>4. CASE PreflightEvidence
    <3>1. CASE Error
      BY <3>1 DEF Error, Grows
    <3>2. CASE /\ Acceptable(mem, run.evidence)
               /\ WriteAndStop(Accepted(mem, run.evidence), "NETWORK_OR_STORAGE_READINESS_REQUIRED")
      <4>1. mem = disk /\ run.evidence \in Evidence
        BY <2>2, <2>4 DEF PreflightEvidence, PreflightNeeded, Run, Evident
      <4>2. Grown(disk, Accepted(mem, run.evidence))
        BY <2>2, <3>2, <4>1, GrownAccepted
      <4> QED BY <3>2, <4>2 DEF WriteAndStop, Grows
    <3> QED BY <2>4, <3>1, <3>2 DEF PreflightEvidence
  <2>5. CASE RecordPreflight
    <3> DEFINE q == MarkStages(mem, Recorded["preflight"], "PASS")
    <3>1. CASE WriteThen(q, "bootstrap")
      <4>1. /\ Recorded["preflight"] \in SUBSET Stage /\ "PASS" \in Status
            /\ protected_profile_source \notin Recorded["preflight"]
        BY <2>1, OwnerStages, StageNumbers DEF Status, Recorded
      <4>2. Grown(disk, q)
        BY <2>1, <2>2, <4>1, MarkGrows, MarkedRest
      <4> HIDE DEF q
      <4> QED BY <3>1, <4>2 DEF WriteThen, Grows
    <3>2. CASE result = "fail" /\ Fail(ReadinessStage)
      <4>1. ~AllDone(mem, Recorded["preflight"])
        BY <2>1, <3>2 DEF Inductive
      <4>2. Recorded["preflight"] = {network_preflight, usb_ext4_entware_readiness}
        BY <2>1 DEF Recorded
      <4>3. ReadinessStage \in Stage /\ ~StageDone(mem, ReadinessStage)
        BY <4>1, <4>2, StageNumbers DEF ReadinessStage, AllDone
      <4> QED BY <2>1, <3>2, <4>3, FailGrows
    <3> QED BY <2>5, <3>1, <3>2 DEF RecordPreflight
  <2> QED BY <1>1, <2>3, <2>4, <2>5
<1>2. ASSUME NEW o \in Owner \ {"preflight"}, PassOwner(o) \/ RunOwner(o) \/ RecordOwner(o)
      PROVE  Grows
  <2>1. pc = o /\ pc # "idle" /\ pc # "component" /\ pc # "preflight"
    BY <1>2 DEF PassOwner, RunOwner, RecordOwner, Owner
  <2>2. mem \in Receipt /\ Sound(mem) /\ mem = disk
    BY <2>1, RunHoldsReceipt
  <2>3. CASE PassOwner(o) \/ RunOwner(o)
    BY <2>3 DEF PassOwner, RunOwner, Error, GoOn, Grows
  <2>4. CASE RecordOwner(o)
    <3>1. CASE WriteThen(OwnerReceipt(o), After[o])
      <4> DEFINE done == MarkStages(mem, Recorded[o], "PASS")
                 q == OwnerReceipt(o)
      <4>1. /\ Recorded[o] \in SUBSET Stage /\ "PASS" \in Status
            /\ protected_profile_source \in Recorded[o] => strict_plan \in Recorded[o]
        BY OwnerStages, StageNumbers DEF Status, Recorded, Owner
      <4>2. done \in Receipt /\ done.state_epoch = mem.state_epoch
        <5>1. done \in Receipt
          BY <2>2, <4>1, MarkStagesFields
        <5>2. done.state_epoch = mem.state_epoch
          BY <2>2, <4>1, MarkedRest
        <5> QED BY <5>1, <5>2
      <4>3. q = CASE o = "setup"       -> [done EXCEPT !.endpoint_manifest = manifest]
                  [] o = "healthcheck" -> Verified(done, {"xray"})
                  [] o = "autostart"   ->
                       Verified([done EXCEPT !.runtime_disposition = "EXECUTED"],
                                {"installation", "autostart"})
                  [] OTHER             -> done
        BY DEF OwnerReceipt, done
      <4> HIDE DEF done, q
      <4>4. q.stages = done.stages /\ q.state_epoch = done.state_epoch
        <5>1. CASE o = "setup"
          BY <4>2, <4>3, <5>1 DEF Receipt
        <5>2. CASE o = "healthcheck"
          BY <4>2, <4>3, <5>2 DEF Verified, Receipt
        <5>3. CASE o = "autostart"
          BY <4>2, <4>3, <5>3 DEF Verified, Receipt
        <5>4. CASE o \notin {"setup", "healthcheck", "autostart"}
          BY <4>2, <4>3, <5>4
        <5> QED BY <5>1, <5>2, <5>3, <5>4
      <4>5. Grown(disk, q)
        BY <2>1, <4>1, <4>2, <4>4, MarkGrows DEF done
      <4> QED BY <3>1, <4>5 DEF WriteThen, Grows, q
    <3>2. CASE result = "fail" /\ Fail(FailedStage(o))
      <4>1. ~AllDone(mem, Recorded[o])
        BY <2>1, <3>2 DEF Inductive
      <4>2. ~StageDone(mem, FailedStage(o)) /\ FailedStage(o) \in Stage
        BY <2>2, <4>1, FailedStageOpen, OwnerStages DEF Sound
      <4> QED BY <2>1, <3>2, <4>2, FailGrows
    <3> QED BY <2>4, <3>1, <3>2 DEF RecordOwner
  <2> QED BY <1>2, <2>3, <2>4
<1>3. CASE RuntimeError \/ KeepRuntime \/ RuntimeHandoff \/ RecordRuntime
  <2>1. /\ pc = "runtime" /\ pc # "idle" /\ mem = disk /\ mem \in Receipt /\ Sound(mem) /\ run \in Run
    <3>1. pc = "runtime"
      BY <1>3 DEF RuntimeError, KeepRuntime, RuntimeHandoff, RecordRuntime, RuntimeReviewed
    <3> QED BY <3>1, RunHoldsReceipt
  <2>2. ASSUME RuntimeReviewed
        PROVE  /\ Reviewed \in Receipt /\ Sound(Reviewed) /\ Grown(disk, Reviewed)
               /\ Reviewed = mem \/ Known(Reviewed, run.evidence)
    <3>1. Evident => run.evidence \in Evidence
      BY <2>1 DEF Run, Evident
    <3> QED BY <2>1, <2>2, <3>1, ReviewedReceipt, GrownSelf, GrownAccepted
  <2>3. CASE RuntimeError \/ KeepRuntime
    BY <2>3 DEF RuntimeError, KeepRuntime, Error, Grows
  <2>4. CASE RuntimeHandoff
    BY <2>2, <2>4 DEF RuntimeHandoff, WriteAndStop, Grows
  <2>5. CASE RecordRuntime
    <3> DEFINE r == Accepted(Reviewed, run.evidence)
               q == RuntimeReceipt
               st == [s \in Stage |-> IF s \in INSTALLATION_STAGES
                        THEN [status |-> IF Adopt THEN AdoptedStatus(s) ELSE "PASS",
                              epoch |-> r.state_epoch]
                        ELSE r.stages[s]]
               located == [r EXCEPT !.endpoint_manifest = manifest, !.runtime_evidence = TRUE,
                             !.runtime_disposition = IF Adopt THEN "ADOPTED" ELSE "EXTERNAL_EXECUTED",
                             !.stages = st]
    <3>1. /\ RuntimeReviewed /\ run.evidence \in Evidence /\ Acceptable(Reviewed, run.evidence)
      BY <2>1, <2>5 DEF RecordRuntime, Sufficient, Run, Evident
    <3>2. r \in Receipt /\ Grown(disk, r)
      <4>1. r \in Receipt
        BY <2>2, <3>1, AcceptedSound
      <4>2. CASE Reviewed = mem
        BY <2>1, <3>1, <4>1, <4>2, GrownAccepted
      <4>3. CASE Known(Reviewed, run.evidence)
        BY <2>2, <3>1, <4>3 DEF Accepted
      <4> QED BY <2>2, <3>1, <4>1, <4>2, <4>3
    <3>3. q = [located EXCEPT !.final_verification = DerivedFinal(located)]
      BY DEF RuntimeReceipt
    <3>4. /\ \A s \in Stage \ INSTALLATION_STAGES : st[s] = r.stages[s]
          /\ \A s \in INSTALLATION_STAGES :
               st[s].epoch = r.state_epoch /\ st[s].status \in {"PASS", "SKIPPED"}
      BY StageNumbers DEF AdoptedStatus
    <3> HIDE DEF r, q, st
    <3>5. q.stages = st /\ q.state_epoch = r.state_epoch
      BY <3>2, <3>3 DEF Receipt
    <3>6. /\ \A s \in Stage \ INSTALLATION_STAGES : q.stages[s] = r.stages[s]
          /\ \A s \in INSTALLATION_STAGES : StageDone(q, s) /\ q.stages[s].epoch = q.state_epoch
      BY <3>4, <3>5 DEF StageDone
    <3>7. Together(q)
      BY <3>6, StageNumbers DEF Together
    <3>8. \A s \in Stage \ INSTALLATION_STAGES : StageDone(q, s) <=> StageDone(r, s)
      BY <3>6 DEF StageDone
    <3>9. Grown(r, q)
      BY <3>5, <3>6, <3>7, <3>8 DEF Grown
    <3>10. Grown(disk, q)
      BY <2>1, <3>2, <3>5, <3>9, GrownChain
    <3> QED BY <2>5, <3>10 DEF RecordRuntime, WriteThen, Grows, q
  <2> QED BY <1>3, <2>3, <2>4, <2>5
<1> QED BY <1>1, <1>2, <1>3 DEF Installation

(* The stages after the installation.                                      *)
LEMMA LaterStagesGrow ==
  ASSUME Inductive, ComponentAndReboot \/ NativeTransactionStage \/ Acceptance
  PROVE  Grows
<1>1. /\ pc \in Located /\ pc # "idle" /\ mem \in Receipt /\ Sound(mem) /\ run \in Run
      /\ pc # "component" => mem = disk
  <2>1. pc \in {"component", "inspect", "reboot", "native", "dns", "client", "final"}
    BY DEF ComponentAndReboot, NativeTransactionStage, Acceptance,
       AcceptAtComponent, InspectComponent, PassReboot,
       SkipReboot, ProveReboot, RebootHandoff, RebootOpen, PassNative, LocalNativePlan,
       LocalNativeSave, LocalNativeRollback, RecordLocalNative, LocalNative, ExternalNative,
       NativeOpen, PacketOpen, ExternalPreState, ExternalBuildPacket, ExternalPlanned,
       ExternalPacketLost, ExternalDelivery, ExternalRunning, ExternalSave, ExternalSaved,
       PassDns, DnsHandoff, RecordDns, ClientStage, FinalResult, DnsOpen
  <2> QED BY <2>1, RunHoldsReceipt DEF Located, Label, Owner
<1>2. ASSUME NEW why, Handoff(why), pc # "component"
      PROVE  Grows
  BY <1>1, <1>2 DEF Handoff, WriteAndStop, Grows
<1>3. ASSUME NEW q, NEW next, WriteThen(q, next), Grown(disk, q)
      PROVE  Grows
  BY <1>3 DEF WriteThen, Grows
<1>4. ASSUME NEW S \in SUBSET Stage, NEW status \in {"PASS", "SKIPPED"}, NEW q,
             protected_profile_source \notin S,
             q.stages = MarkStages(mem, S, status).stages, q.state_epoch = mem.state_epoch
      PROVE  Grown(disk, q)
  <2>1. status \in Status
    BY DEF Status
  <2> QED BY <1>1, <1>4, <2>1, MarkGrows
<1>5. /\ \A s \in 7..17 : {s} \in SUBSET Stage /\ protected_profile_source \notin {s}
      /\ {controlled_reboot, post_reboot_proof} \in SUBSET Stage
      /\ protected_profile_source \notin {controlled_reboot, post_reboot_proof}
      /\ {"PASS", "SKIPPED"} \in SUBSET Status
      /\ {native_proxy_component, native_proxy_policy_transaction, protected_dns_gate,
          selected_client_acceptance, final_result} \in SUBSET (7..17)
  BY StageNumbers DEF Status
<1>6. ASSUME NEW S \in SUBSET Stage
      PROVE  /\ MarkStages(mem, S, "PASS") \in Receipt
             /\ MarkStages(mem, S, "PASS").state_epoch = mem.state_epoch
  <2>1. MarkStages(mem, S, "PASS") \in Receipt
    BY <1>1, <1>5, MarkStagesFields
  <2>2. MarkStages(mem, S, "PASS").state_epoch = mem.state_epoch
    BY <1>1, <1>5, MarkedRest
  <2> QED BY <2>1, <2>2
<1>7. CASE ComponentAndReboot
  <2>1. CASE AcceptAtComponent
    <3>1. CASE GoOn("inspect") \/ Error
      BY <3>1 DEF GoOn, Error, Grows
    <3>2. CASE /\ Evident /\ Acceptable(mem, run.evidence)
               /\ WriteThen(Accepted(mem, run.evidence), "inspect")
      <4>1. disk \in Receipt /\ Sound(disk) /\ run.evidence \in Evidence /\ mem # NoReceipt
        BY <1>1, <3>2, KeptInMemory, ModeAssumption DEF Run, Evident
      <4>2. CASE mem = disk
        BY <1>3, <3>2, <4>1, <4>2, GrownAccepted
      <4>3. CASE Acceptable(disk, run.evidence) /\ mem = Accepted(disk, run.evidence)
        <5>1. mem.discovery = run.evidence
          BY <4>1, <4>3, AcceptedSound
        <5>2. Known(mem, run.evidence)
          BY <4>1, <5>1, EvidenceAssumption DEF Known
        <5>3. Accepted(mem, run.evidence) = mem
          BY <5>2 DEF Accepted
        <5> QED BY <1>1, <1>3, <3>2, <5>3, GrownInMemory
      <4> QED BY <4>1, <4>2, <4>3 DEF Inductive, InStep
    <3> QED BY <2>1, <3>1, <3>2 DEF AcceptAtComponent
  <2>2. CASE InspectComponent
    <3>1. CASE WriteThen(ComponentReceipt, "reboot")
      <4> DEFINE done == MarkStages(mem, {native_proxy_component}, "PASS")
      <4>1. done \in Receipt /\ done.state_epoch = mem.state_epoch
        BY <1>5, <1>6
      <4> HIDE DEF done
      <4>2. /\ ComponentReceipt.stages = done.stages
            /\ ComponentReceipt.state_epoch = done.state_epoch
        BY <4>1 DEF ComponentReceipt, done, Receipt
      <4>3. Grown(disk, ComponentReceipt)
        BY <1>4, <1>5, <4>1, <4>2 DEF done
      <4> QED BY <1>3, <3>1, <4>3
    <3>2. CASE GoOn("reboot") \/ Error
      BY <3>2 DEF GoOn, Error, Grows
    <3> QED BY <1>2, <2>2, <3>1, <3>2 DEF InspectComponent
  <2>3. CASE PassReboot \/ RebootHandoff
    BY <1>2, <2>3 DEF PassReboot, RebootHandoff, RebootOpen, GoOn, Grows
  <2> DEFINE S == {controlled_reboot, post_reboot_proof}
  <2>4. CASE SkipReboot
    <3>1. Grown(disk, MarkStages(mem, S, "SKIPPED"))
      BY <1>1, <1>4, <1>5, MarkedRest
    <3> QED BY <1>3, <2>4, <3>1 DEF SkipReboot
  <2>5. CASE ProveReboot
    <3>1. CASE Error
      BY <3>1 DEF Error, Grows
    <3>2. CASE WriteThen(RebootReceipt, "native")
      <4> DEFINE done == MarkStages(mem, S, "PASS")
      <4>1. done \in Receipt /\ done.state_epoch = mem.state_epoch
        BY <1>5, <1>6
      <4> HIDE DEF done
      <4>2. /\ RebootReceipt.stages = done.stages
            /\ RebootReceipt.state_epoch = done.state_epoch
        BY <4>1 DEF RebootReceipt, done, Receipt
      <4>3. Grown(disk, RebootReceipt)
        BY <1>4, <1>5, <4>1, <4>2 DEF done
      <4> QED BY <1>3, <3>2, <4>3
    <3> QED BY <2>5, <3>1, <3>2 DEF ProveReboot
  <2> QED BY <1>7, <2>1, <2>2, <2>3, <2>4, <2>5 DEF ComponentAndReboot
<1>8. CASE NativeTransactionStage
  <2>1. pc = "native" /\ pc # "component"
    BY <1>8 DEF NativeTransactionStage, PassNative, LocalNativePlan,
       LocalNativeSave, LocalNativeRollback, RecordLocalNative, LocalNative, ExternalNative,
       NativeOpen, PacketOpen, ExternalPreState, ExternalBuildPacket, ExternalPlanned,
       ExternalPacketLost, ExternalDelivery, ExternalRunning, ExternalSave, ExternalSaved
  <2>2. CASE PassNative
    BY <2>2 DEF PassNative, GoOn, Grows
  <2>3. CASE NativeOpen
    <3>1. mem = disk /\ ~StageDone(mem, native_proxy_policy_transaction)
      BY <1>1, <2>1, <2>3 DEF NativeOpen
    <3>2. NativeFailed => Grows
      BY <1>1, <3>1, StageNumbers, FailGrows DEF NativeFailed
    <3>3. ASSUME NEW q, NEW next, WriteThen(q, next), q.stages = mem.stages,
                 q.state_epoch = mem.state_epoch
          PROVE  Grows
      <4>1. Grown(disk, q)
        BY <3>1, <3>3 DEF Grown, Together, StageDone
      <4> QED BY <1>3, <3>3, <4>1
    <3> DEFINE done == MarkStages(mem, {native_proxy_policy_transaction}, "PASS")
    <3>4. ASSUME NEW q, NEW next, WriteThen(q, next), q.stages = done.stages,
                 q.state_epoch = mem.state_epoch
          PROVE  Grows
      <4>1. Grown(disk, q)
        BY <1>4, <1>5, <3>4
      <4> QED BY <1>3, <3>4, <4>1
    <3>5. done \in Receipt /\ done.state_epoch = mem.state_epoch
      BY <1>5, <1>6
    <3> HIDE DEF done
    <3>6. /\ LocalNativeReceipt.stages = done.stages
          /\ LocalNativeReceipt.state_epoch = mem.state_epoch
          /\ ExternalNativeReceipt.stages = done.stages
          /\ ExternalNativeReceipt.state_epoch = mem.state_epoch
      BY <3>5 DEF LocalNativeReceipt, ExternalNativeReceipt, Verified, done, Receipt
    <3>7. CASE LocalNativePlan \/ LocalNativeSave \/ LocalNativeRollback
      BY <3>7 DEF LocalNativePlan, LocalNativeSave, LocalNativeRollback, NativeSubprocess, Grows
    <3>8. CASE RecordLocalNative
      BY <3>2, <3>4, <3>6, <3>8 DEF RecordLocalNative, NativeFailed
    <3>9. CASE ExternalPreState \/ ExternalDelivery \/ ExternalSave
      BY <1>2, <2>1, <3>9 DEF ExternalPreState, ExternalDelivery, ExternalSave
    <3>10. CASE ExternalBuildPacket \/ ExternalPacketLost
      BY <3>2, <3>10 DEF ExternalBuildPacket, ExternalPacketLost, Grows
    <3>11. CASE ExternalPlanned
      <4> DEFINE q == [mem EXCEPT !.native_transaction =
                         [status |-> "PLANNED", packet |-> packet,
                          write_required |-> packet.write_required,
                          pre_epoch |-> mem.state_epoch]]
      <4>1. q.stages = mem.stages /\ q.state_epoch = mem.state_epoch
        BY <1>1 DEF Receipt
      <4>2. WriteThen(q, "native")
        BY <3>11 DEF ExternalPlanned
      <4> HIDE DEF q
      <4> QED BY <3>3, <4>1, <4>2
    <3>12. CASE ExternalRunning
      <4> DEFINE q == [mem EXCEPT !.native_transaction.status = "RUNNING_VERIFIED"]
      <4>1. q.stages = mem.stages /\ q.state_epoch = mem.state_epoch
        BY <1>1 DEF Receipt
      <4>2. WriteThen(q, "native") \/ NativeFailed
        BY <3>12 DEF ExternalRunning
      <4> HIDE DEF q
      <4> QED BY <3>2, <3>3, <4>1, <4>2
    <3>13. CASE ExternalSaved
      BY <3>2, <3>4, <3>6, <3>13 DEF ExternalSaved
    <3> QED BY <1>8, <2>2, <3>7, <3>8, <3>9, <3>10, <3>11, <3>12, <3>13 DEF NativeTransactionStage
  <2>4. PassNative \/ NativeOpen
    BY <1>8 DEF NativeTransactionStage, LocalNativePlan,
       LocalNativeSave, LocalNativeRollback, RecordLocalNative, LocalNative, ExternalNative,
       PacketOpen, ExternalPreState, ExternalBuildPacket, ExternalPlanned,
       ExternalPacketLost, ExternalDelivery, ExternalRunning, ExternalSave, ExternalSaved
  <2> QED BY <2>2, <2>3, <2>4
<1>9. CASE Acceptance
  <2>1. pc # "component"
    BY <1>9 DEF Acceptance, PassDns, DnsHandoff, RecordDns, ClientStage, FinalResult, DnsOpen
  <2>2. ASSUME NEW s \in {protected_dns_gate, selected_client_acceptance, final_result}, NEW q,
               q.stages = MarkStages(mem, {s}, "PASS").stages, q.state_epoch = mem.state_epoch
        PROVE  Grown(disk, q)
    BY <1>4, <1>5, <2>2
  <2>3. ASSUME NEW s \in {protected_dns_gate, selected_client_acceptance, final_result}
        PROVE  /\ MarkStages(mem, {s}, "PASS") \in Receipt
               /\ MarkStages(mem, {s}, "PASS").state_epoch = mem.state_epoch
    <3>1. {s} \in SUBSET Stage
      BY StageNumbers
    <3> QED BY <1>6, <3>1
  <2>4. CASE PassDns \/ DnsHandoff
    BY <1>2, <2>1, <2>4 DEF PassDns, DnsHandoff, GoOn, Grows
  <2>5. CASE RecordDns
    <3> DEFINE done == MarkStages(mem, {protected_dns_gate}, "PASS")
    <3>1. done \in Receipt /\ done.state_epoch = mem.state_epoch
      BY <2>3
    <3> HIDE DEF done
    <3>2. DnsReceipt.stages = done.stages /\ DnsReceipt.state_epoch = done.state_epoch
      BY <3>1 DEF DnsReceipt, Verified, done, Receipt
    <3>3. Grown(disk, DnsReceipt)
      BY <2>2, <3>1, <3>2 DEF done
    <3> QED BY <1>3, <2>5, <3>3 DEF RecordDns
  <2>6. CASE ClientStage
    <3> DEFINE done == MarkStages(mem, {selected_client_acceptance}, "PASS")
               q == Verified(done, {"client_domain_https"})
    <3>1. done \in Receipt /\ done.state_epoch = mem.state_epoch
      BY <2>3
    <3>2. GoOn("final") \/ Handoff("CLIENT_FUNCTIONAL_VERIFICATION_REQUIRED")
          \/ WriteThen(q, "final")
      BY <2>6 DEF ClientStage
    <3> HIDE DEF done
    <3>3. q.stages = done.stages /\ q.state_epoch = done.state_epoch
      BY <3>1 DEF Verified, Receipt
    <3>4. Grown(disk, q)
      BY <2>2, <3>1, <3>3 DEF done
    <3> HIDE DEF q
    <3> QED BY <1>2, <1>3, <2>1, <3>2, <3>4 DEF GoOn, Grows
  <2>7. CASE FinalResult
    <3>1. Grown(disk, MarkStages(mem, {final_result}, "PASS"))
      BY <2>2, <2>3
    <3> QED BY <2>7, <3>1 DEF FinalResult, WriteAndStop, Grows
  <2> QED BY <1>9, <2>4, <2>5, <2>6, <2>7 DEF Acceptance
<1> QED BY <1>7, <1>8, <1>9

(* A step of a run goes on, or says how the run has ended.                 *)
LEMMA RunOrOutcome ==
  ASSUME Process
  PROVE  pc # "idle" /\ (pc' # "idle" \/ outcome' # "none")
<1>1. \A o \in Owner : After[o] # "idle"
  BY OwnerStages
<1>2. "idle" \notin Owner
  BY DEF Owner
<1> USE DEF Stop, WriteThen, WriteAndStop, Handoff, Fail, GoOn, Error
<1>3. ASSUME Installation
      PROVE  pc # "idle" /\ (pc' # "idle" \/ outcome' # "none")
  BY <1>1, <1>2, <1>3 DEF Installation, PassPreflight, PreflightHandoff, PreflightEvidence, RunPreflight,
     RecordPreflight, PreflightNeeded, PassOwner, RunOwner, RecordOwner, RuntimeError, KeepRuntime,
     RuntimeHandoff, RecordRuntime, RuntimeReviewed
<1>4. ASSUME ComponentAndReboot
      PROVE  pc # "idle" /\ (pc' # "idle" \/ outcome' # "none")
  BY <1>4 DEF ComponentAndReboot, AcceptAtComponent, InspectComponent, PassReboot, SkipReboot,
     ProveReboot, RebootHandoff, RebootOpen
<1>5. ASSUME NativeTransactionStage
      PROVE  pc # "idle" /\ (pc' # "idle" \/ outcome' # "none")
  BY <1>5 DEF NativeTransactionStage, PassNative, LocalNativePlan, NativeFailed,
     LocalNativeSave, LocalNativeRollback, RecordLocalNative, LocalNative, ExternalNative,
     NativeOpen, PacketOpen, ExternalPreState, ExternalBuildPacket, ExternalPlanned,
     ExternalPacketLost, ExternalDelivery, ExternalRunning, ExternalSave, ExternalSaved,
     NativeSubprocess
<1>6. ASSUME Acceptance
      PROVE  pc # "idle" /\ (pc' # "idle" \/ outcome' # "none")
  BY <1>6 DEF Acceptance, PassDns, DnsHandoff, RecordDns, ClientStage, FinalResult, DnsOpen
<1> QED BY <1>3, <1>4, <1>5, <1>6 DEF Process

(* Whatever happens, the receipt on disk grows or stays what it is; apply  *)
(* starts one with nothing done.                                           *)
LEMMA EveryStepGrows ==
  ASSUME Inductive, Inductive', disk # NoReceipt => Together(disk), [Next]_vars
  PROVE  \/ disk # NoReceipt /\ disk' # NoReceipt /\ Grows
         \/ disk = NoReceipt /\ disk' = NoReceipt
         \/ disk = NoReceipt /\ \E authorize \in BOOLEAN : disk' = InitialReceipt(authorize)
<1>1. CASE disk' = disk
  BY <1>1 DEF Grows
<1>2. CASE Process
  <2>1. pc # "idle" /\ disk # NoReceipt
    BY <1>2, RunOrOutcome DEF Inductive, TypeOK
  <2>2. disk' # NoReceipt
    BY <1>2, RunOrOutcome DEF Inductive, TypeOK
  <2>3. Grows
    BY <1>2, <2>1, InstallationGrows, LaterStagesGrow DEF Process
  <2> QED BY <2>1, <2>2, <2>3
<1>3. ASSUME NEW ev, NEW snaps, NEW authorize \in BOOLEAN, Apply(ev, snaps, authorize)
      PROVE  disk = NoReceipt /\ disk' = InitialReceipt(authorize)
  BY <1>3 DEF Apply, Begin
<1>4. ASSUME NEW ev, NEW snaps, NEW authorize \in BOOLEAN, Resume(ev, snaps, authorize)
      PROVE  disk # NoReceipt /\ disk' # NoReceipt /\ Grows
  <2>1. disk \in Receipt /\ disk # NoReceipt
    BY <1>4 DEF Resume, Inductive, TypeOK
  <2>2. disk' = [disk EXCEPT !.reboot_authorized = @ \/ authorize] /\ outcome' = "running"
    BY <1>4 DEF Resume, Begin
  <2>3. disk' # NoReceipt
    BY <2>2 DEF Inductive
  <2>4. disk'.stages = disk.stages /\ disk'.state_epoch = disk.state_epoch
    BY <2>1, <2>2 DEF Receipt
  <2>5. Grown(disk, disk')
    BY <2>4 DEF Grown, Together, StageDone
  <2> QED BY <2>1, <2>3, <2>5 DEF Grows
<1>5. CASE Command
  BY <1>3, <1>4, <1>5 DEF Command
<1>6. CASE (Operator /\ ~Command) \/ Kill \/ UNCHANGED vars
  <2>1. disk' = disk
    BY <1>6 DEF Operator, Deliver, SaveConfiguration, RemovePacket, LosePacket, RestorePacket,
       RestoreManifest, ExportManifest, ReplaceManifest, Idle, Kill, vars
  <2> QED BY <1>1, <2>1
<1> QED BY <1>2, <1>5, <1>6 DEF Next, Operator

(* The receipt is a stage ledger: within a state epoch it never gets       *)
(* shorter, only a new epoch takes work back, and every entry is added or  *)
(* renewed with the epoch of the time.                                     *)
THEOREM ReceiptIsLedger == Spec => ImplementsLedger
<1> DEFINE Bundled == disk # NoReceipt => Together(disk)
           ledger == [i \in 1..Cardinality(DoneOnDisk) |-> disk.stages[i].epoch]
           epoch == IF disk = NoReceipt THEN 0 ELSE disk.state_epoch
<1>1. ASSUME NEW r, \A s \in Stage : ~StageDone(r, s)
      PROVE  Together(r)
  BY <1>1, StageNumbers DEF Together
<1>2. \A authorize \in BOOLEAN :
        /\ \A s \in Stage : ~StageDone(InitialReceipt(authorize), s)
        /\ InitialReceipt(authorize).state_epoch = 0
  BY DEF InitialReceipt, StageDone, Pending
<1>3. Init => Bundled
  BY DEF Init
<1>4. Inductive /\ Inductive' /\ Bundled /\ [Next]_vars => Bundled'
  <2> SUFFICES ASSUME Inductive, Inductive', Bundled, [Next]_vars, disk' # NoReceipt
               PROVE  Together(disk')
    BY DEF Together, StageDone
  <2>1. CASE disk # NoReceipt /\ Grows
    BY <2>1 DEF Grows, Grown
  <2>2. CASE disk = NoReceipt /\ \E authorize \in BOOLEAN : disk' = InitialReceipt(authorize)
    BY <1>1, <1>2, <2>2
  <2> QED BY <2>1, <2>2, EveryStepGrows
<1>5. ASSUME DoneOnDisk = {}
      PROVE  ledger = <<>>
  BY <1>5, FS_EmptySet
<1>6. Init => Ledger!Init
  BY <1>5 DEF Init, Ledger!Init, DoneOnDisk, OnDisk
<1>7. Inductive /\ Inductive' /\ Bundled /\ [Next]_vars => [Ledger!Next]_<<ledger, epoch>>
  <2> SUFFICES ASSUME Inductive, Inductive', Bundled, [Next]_vars
               PROVE  Ledger!Next \/ (ledger' = ledger /\ epoch' = epoch)
    OBVIOUS
  <2>1. CASE disk' = disk
    BY <2>1 DEF DoneOnDisk, OnDisk, StageDone
  <2>2. CASE disk # NoReceipt /\ disk' # NoReceipt /\ Grown(disk, disk')
    <3>1. disk \in Receipt /\ disk' \in Receipt /\ InOrder(disk) /\ InOrder(disk')
      BY <2>2 DEF Inductive, TypeOK, Sound
    <3> QED BY <2>2, <3>1, GrowthIsLedgerStep
  <2>3. CASE disk = NoReceipt /\ \E authorize \in BOOLEAN : disk' = InitialReceipt(authorize)
    <3>1. DoneOnDisk = {}
      BY <2>3 DEF DoneOnDisk, OnDisk
    <3>2. DoneOnDisk' = {}
      BY <1>2, <2>3 DEF DoneOnDisk, OnDisk, StageDone
    <3>3. ledger = <<>> /\ ledger' = <<>>
      BY <3>1, <3>2, FS_EmptySet
    <3>4. epoch = 0 /\ epoch' = 0
      BY <1>2, <2>3
    <3> QED BY <3>3, <3>4
  <2> QED BY <2>1, <2>2, <2>3, EveryStepGrows DEF Grows
<1> HIDE DEF Bundled
<1> QED BY <1>3, <1>4, <1>6, <1>7, InductiveInvariant, PTL DEF Spec, ImplementsLedger, Ledger!Spec
=============================================================================
