# TLA+ models of netcraze-xray-routerkit

RouterKit installs a pinned Xray on a Netcraze/Keenetic router (under Entware in
`/opt`), generates its configuration from a subscription, creates native Proxy and
Policy objects through the router's NDM command line, and walks an operator through
the whole as a resumable "live install". These modules model the parts of it that
keep state, change the router or the file system in several steps, or must survive
being stopped half way. `PROJECT.json` lists the components, the runs, the mutants
that show each property can fail, the source lines of every definition, the hazards
and the theorems.

## 1. The system

Paths are relative to `src/`. "Hard" names what is difficult to test.

| Component | State it keeps | Operations | Hard |
|---|---|---|---|
| Live-install orchestrator, `scripts/routerkit_live_install.py` | the receipt file; in memory its copy, the evidence document, the endpoint manifest | `apply`, `resume` (17 stages, each calling an owner and writing the receipt), `plan`, `status` | kills between an effect and its record; evidence that takes stages back; handoffs to the operator; retries |
| Receipt and evidence model, same file | stage results with state epochs, accepted discovery, native transaction, final areas | mark, reset from a stage, accept evidence, validate, write | stale results after a state change, order of stages, one document per epoch |
| Native NDM adapter, `scripts/routerkit_netcraze_live.py`, `..._live_compat.py`, `routerkit-netcraze-live.py` | nothing of its own; the running and startup configuration of the router, a backup file | `status`, `plan`, `apply` (fresh read, create proxies and policies, assign a device, verify, save, verify, roll back) | commands that fail after taking effect, kills and restarts, the Web UI or a second run changing the configuration between a read and a write, an incomplete rollback |
| External native transaction, `scripts/routerkit_netcraze_external.py` | the transaction file | build, validate, verify running, verify saved | stale or replaced snapshots and manifests, left-over files |
| Init script, `templates/S23xray-direct` | lock directory, owner file, pid file, the Xray child | `start`, `stop`, `restart`, `status` | two invocations at once, signals between `mkdir` and the owner file or between `spawn` and the pid file, stale files after a power loss |
| Autostart, `scripts/routerkit_autostart.py`, `..._fd.py` | the mode bits of `S23xray-direct` and `S24xray`, the running process | `status`, `verify`, `enable`, `disable` | failure after one of two files changed, a process replaced during verification, signals |
| Bootstrap apply, `scripts/routerkit_bootstrap_apply.py`, `routerkit-bootstrap.py`, `routerkit_artifact_network.py` | installed binary, backup, staging directory, bootstrap receipt | packages, download, verify, replace, post-verify, receipt, roll back | signals in every phase, crash between replacement and receipt |
| Private I/O, `scripts/routerkit_private_io.py` | a published file and its temporary | read and atomically publish owner-only files | path swapped between check and use, durability failure after publication |
| Routing overrides, `scripts/routerkit_routing.py` | override state, rendered configuration | plan, apply, reconcile, roll back | crash between the two files |
| Setup pipeline, `scripts/routerkit.py` | child processes, secret workspace, pending signal | `setup`, `install`, `doctor` and others | a signal at any point, cleanup exactly once |
| Native change planner and simulator, `scripts/routerkit_netcraze_plan.py` | none (pure) | normalise a snapshot, build a plan, simulate it, validate integrity | conflicts, ambiguity, idempotence of a rerun |
| Profile network, `scripts/routerkit_profile_network.py` | deadline, redirect count, DNS worker | bounded fetch of a subscription | deadline against a blocking resolver, redirects |
| Profile source, generation and strict plan, `scripts/routerkit_profile_source.py`, `routerkit-profile-source.py`, `generate-xray-profiles.py`, `routerkit-plan.py` | generated files | parse, render | data conversion; few states |
| Device discovery, `scripts/routerkit_devices.py` | none (pure) | normalise, classify and select a device | ambiguity, duplicates |
| Hardware canary and validators, `scripts/routerkit_hardware_canary.py`, `validate_routerkit_platform_compatibility.py`, `check_public_data.py` | none | validate repository data | well reached by tests |
| Shell stages and wizard, `scripts/preflight.sh`, `backup.sh`, `install-xray-direct.sh`, `healthcheck.sh`, `routerkit-wizard.py` | files they copy | one-shot commands | called as owners by the orchestrator |

How they interact: the operator starts `live-install apply` and then `resume` as
often as needed. The orchestrator calls, as subprocesses, `preflight.sh`, bootstrap
apply, `routerkit setup` (which runs the profile source, the generator and the strict
planner), backup, install, healthcheck and autostart; autostart calls the init script.
Next it needs facts only an operator can see (native component present, a reboot done,
DNS and client checks) and takes them from an *evidence document*, one per *state
epoch*. The native transaction is done by the NDM adapter as a subprocess
(`local-ndmc`) or by an external agent with a transaction file (`external`). The
components share state through files only: the receipt, the endpoint manifest, the
transaction file, the installed tree, and the router's configuration.

What makes each of them correct, in a sentence:

- *orchestrator and receipt*: the receipt never says more than happened and never
  keeps a result a reported state change has invalidated; the native configuration
  changes only behind a complete local installation and a reboot proof; DNS and client
  evidence is from after the native write; a campaign can always be finished;
- *NDM adapter*: objects of others stay as they are, also through a failure and its
  rollback; success means that the configuration is in force and saved;
- *external transaction*: only the configuration the packet describes is accepted, and
  a packet is good for one snapshot and one manifest;
- *init script*: at most one managed Xray, no other process ever killed, no lock that
  outlives its owner for ever;
- *autostart*: never both init scripts enabled, never enabled without a verified
  runtime, a failure restores the previous pair;
- *bootstrap apply*: the installed binary is always the old or the new one, the receipt
  describes the one that is there;
- *private I/O and routing*: a reader sees the old or the new content, the state file
  describes the published configuration;
- *setup pipeline*: secrets are gone, and a child is left only where the code cannot help it;
- *planner, devices*: plans touch only what they own; ambiguity is refused.

## 2. How the project is organised

Each part has a module with its state and actions, an MC module with the values of a run,
and, where theorems are proved, a module of proofs.

1. **InstallReceipt**, **LiveInstall**, **StageLedger** (abstract), **MCLiveInstall**,
   **LiveInstallProofs**: the orchestrator, which decides when everything else runs.
2. **NdmRouter**, **NdmApply**, **MCNdmApply**, **NdmApplyProofs**: the NDM adapter against
   the router, command by command, with failing commands, kills, restarts and another
   administrator.
3. **NativeExternal**, **MCNativeExternal**, **NativeExternalProofs**: the transaction file,
   on the same router functions, with an operator who carries the commands.
4. **XrayInit**, **MCXrayInit**, **XrayInitProofs**: `start`/`stop`/`restart`/`status`
   of the init script by concurrent callers, with signals, kills, reused pids and
   restarts.
5. **Autostart**, **MCAutostart**, **AutostartProofs**: enable and disable, with
   verification and rollback.
6. **BootstrapApply**, **MCBootstrapApply**, **BootstrapApplyProofs**: the replacement of
   the binary under signals, kills and foreign changes.
7. **Setup**, **MCSetup**, **SetupProofs**: `setup` and `install`, their secrets, children
   and signals.
8. **PrivateIO**, **ProfileFiles**, **RoutingApply**, **MCRoutingApply**,
   **RoutingApplyProofs**: atomic publication of one file, the generator that uses it, and
   the composition with routing apply, reconcile and the installer on one configuration
   directory.

What could follow: the preview planner `routerkit_netcraze_plan.py` as operators against a
reference definition of a legal plan; the deadlines of `routerkit_profile_network.py`; a
composition of Autostart with XrayInit in place of the three outcomes Autostart lets an
init command have; the packet protocol as a refinement of the receipt's view of it in
LiveInstall.

## 3. The live-install modules

**InstallReceipt** holds the receipt record and the pure functions over it. Stages are
numbers in the order of `STAGE_ORDER`. `MarkStages` is `mark_stage`, once per stage, `ResetFrom` is
`_reset_from_stage`, `Acceptable`/`Accepted`/`Reopen` are `accept_discovery_evidence` with its
reopening rules, `DerivedFinal` is `_sync_final_verification`, and `Valid` is what
`validate_receipt` demands of the order of stages, the runtime disposition and the
cross-references between fields. Evidence documents are records of what the branches
read of them (an epoch, a reported state change, whether the network, Xray, component,
DNS and client sections suffice).

**LiveInstall** is the process. Its state:

| Variable | In the code |
|---|---|
| `disk`, `mem` | the receipt file, and the `receipt` dict of the running process |
| `pc`, `run`, `result` | the place in `_run_installation_stages`, `_component_and_reboot` or `_native_dns_client_stages`; the command line; a subprocess's effect not yet on record |
| `outcome` | how the last run ended: a named handoff (exit 4), a failure, an error, a refusal by `write_receipt`, a traceback, a kill, `complete` |
| `manifest`, `packet` | the endpoint manifest file and the external transaction file |
| `router` | the native configuration, running and startup, named by the manifest it implements |
| `ran` | history: the epoch an owner last succeeded in |
| `faults` | how many failures, kills and manifest changes have been used |

`Apply` and `Resume` are the two commands up to the first stage. `Begin` has their
common prefix: load and validate, compare the identity, accept the evidence. Then, per
stage: pass it if the receipt has it, call the owner (`RunPreflight`, `RunOwner`,
`LocalNativePlan`...), and record the outcome (`RecordPreflight`, `RecordOwner`,
`RecordLocalNative`...). The call and the record are two steps, and `Kill` can come
between them; every `write_receipt` is one step because the file is replaced
atomically. `Deliver`, `SaveConfiguration`, `RemovePacket`, `LosePacket`,
`RestorePacket`, `ExportManifest`, `ReplaceManifest` and `RestoreManifest` are the operator and the external agent, and
they act only between runs. `InspectComponent` to `ClientStage` follow the order of
the source; each early return is a handoff of its name.

**StageLedger** is the abstract specification of a receipt file: the list of done
stages with their epochs, which may be cut only when an epoch opens and may get or
renew an entry only with the current epoch. `ImplementsLedger` checks the refinement.

**MCLiveInstall** names the evidence documents of the runs: a good one per epoch and
state change, and one per way in which a document can fall short.

## 4. The native transaction modules

**NdmRouter** is what the adapter reads, plans and sends, as functions over a router
configuration. A configuration has what `parse_running_config` extracts: proxies and
policies by number, each device's policy, and the lines that mention the default policy
(`guard`). A proxy's upstream and an object's RouterKit name are the slot of the profile
they belong to. `Plans` is `build_live_plan` of the compatibility layer, which the
command line injects (`routerkit-netcraze-live.py:23`): reuse by exact semantics whatever
the name, the lowest free number otherwise (`LowestFree`), and refusal of ambiguity and
of a RouterKit name on something else. It is a set with one plan, or empty when the
planner raises. `Effect` and `Reversal` are one create command and one rollback command,
`Applied` is `verify_plan_applied`.

**NdmApply** is one invocation after another of `apply`. A step is one NDM command or one
read.

| Variable | In the code |
|---|---|
| `running`, `startup` | the router's running and saved configuration |
| `pc` | where `apply_live_plan` is: planned, work, save, recheck, undo, undocheck |
| `plan`, `before` | the plan from `main`'s first read; `state_before` of the second read |
| `todo`, `undo` | the commands still to send; the rollback list, by the step that put an entry on it |
| `exit` | how it ended: 0 (`noop`, `ok`), 1 (`refused`, `rolled-back`), 3 (`unproven`), killed |
| `faults`, `edits` | how many faults and foreign edits have been used |

`Start`/`PlanRefused` are the first read, `Confirm`/`Noop`/`Stale` the second with the
comparison of the plans, `Send` a create or assign command, `Verify`, `Save`, `Recheck`
the end of a success, and `Undo`, `UndoSave`, `UndoCheck` the rollback; each has its
failing form. `Fails` lets a command that is reported as failed have its effect when
`LostReply` holds: `NdmcTransport.command` raises after a timeout, when NDM may have done
what it was told. `Restart`, `RestoreStartup` and `Administrator` are the router and its
users.

**MCNdmApply** names the routers to start from: empty; with objects of an earlier
installation under other names and devices on another policy; with a proxy that asks for
authentication and a dangling policy; with two proxies for one slot.

**NativeExternal** is `routerkit_netcraze_external.py` and the people around it. It uses
`NdmRouter`'s plans and effects. A packet holds the plan, the expected configurations
before and after, and the guard; a fingerprint is the configuration it is taken of, as far
as the parser sees it (`Parsed`). `MakePacket` is `build_transaction` with
`validate_transaction`; `VerifyPre`, `VerifyRunning` and `VerifySaved` are the three
judgements, each of a snapshot that was *taken earlier* (`TakePre`, `TakeRunning`,
`TakeSaved`), so the router may have changed since. `Send` and `Undo` carry one object's
commands over, or lose them; `GiveUp` stops half way. `Damage`, `Restart` and
`Administrator` are what happens meanwhile. `calm` says that nobody but the operator has
changed the router since the packet was made. The three acceptance properties assume it:
the tool sees snapshots only, so it can promise nothing about an edit made after the
last one. `AcceptedSurvives` compares what the parser sees of the running and the startup
configuration, because the fingerprints do: a proxy left behind by a lost
`security-level` command passes every verification, and the two configurations may differ
in it.

## 5. The local modules

### Init script

**XrayInit** is `templates/S23xray-direct`. An invocation is one call of the script, with
a pid and a start time of its own; any number of them may be under way.

| Variable | In the code |
|---|---|
| `proc`, `start` | what runs under a pid, and the start time that with the pid makes an *epoch*; a "fork" is the shell between `&` and `exec`, whose `/proc/PID/exe` is not Xray yet |
| `lock`, `owner`, `litter` | `LOCKDIR`, `LOCKDIR/owner`, a temporary file left in `LOCKDIR` |
| `pidfile` | `PIDFILE` |
| `caller` | per invocation: the place, the command, whether a trap has taken over, `child`/`child_start` or the pid and start time a stop works on (`target`), whether `ACTIVE_CHILD_PID` is set (`active`), `LOCK_OWNED` (`owned`), the exit status |
| `loose`, `victims` | history: the Xrays the script has lost, and how processes of others came to be killed |
| `faults` | how many faults have been used |

`Begin` to `Refused` are `lock`, from `mkdir` over the owner file to `LOCK_OWNED=1`, with
the wait for a live owner and the refusal of a dead one. `StopNothing` to `Stopped` are
`stop_unlocked`, `AlreadyRunning` to `ChildOutlives` are `start_unlocked`: spawn, record
the epoch, publish the pid, sleep, look again. `ReleaseNothing` to `DirTaken` are
`release_lock`, called by the commands and by the traps: the owner file goes, then the
directory, and a last look clears `LOCK_OWNED` only if no directory is there (`DirGone`); one
that another invocation has made in between is an error (`DirTaken`). `CleanUp` and its forms are
`cleanup_active_child`, which only traps call; `Signal` is a caught signal between any two
steps. `ReportStatus`, `FindStale` and `RemoveStale` are `status`, which takes no lock.
`SigKill`, `Die`, `Reuse` and `Reboot` are the rest of the router, and `RemoveLock` is the
operator, who removes a lock when no invocation runs and no forked shell is still to
become Xray.

What is one step: comparing an epoch and sending the signal right after it; TERM, KILL
and the waits between them; the removal of a stale pid file by a holder of the lock (by
`status` it is two steps). The wait for the lock may give up after any number of tries.

A script that can be killed between `&` and the pid file loses its Xray, so the safety
properties are about all Xrays *except those lost*. `loose` grows only in these steps:
a signal or a kill before the child is recorded or published (`Signal`, `SigKill`), a
child that outlives KILL and its wait (`ChildOutlives`, `CleanUpFails`), a `status` that
removes the pid file a start has published since the look (`RemoveStale`), and a trap
that compares numbers only when it removes the pid file, after the lock is gone
(`CleanUp`). Anything else that left an Xray unnamed would violate `NoOrphan`.

**MCXrayInit** has the invocations and pids of the runs and their symmetry.

### Autostart

**Autostart** is `enable_autostart` and `disable_autostart`. Its variables are the
executable bits `s23` and `s24`, the autostart receipt, the running Xray with its epoch, and
the state of `TransactionSignals` (`sig`, `masked`). A step is one change of a file, one
call of the init script or one check. `DisableS24` to `RemoveReceipt` go forward,
`UndoReceipt` to `UndoCheck` are the handler that rolls back, `Disable` to `Disabled` the
other command. The handler is for `AutostartError`; `Escapes` is every other exception, which
ends the command as a traceback where it was. An init script call can succeed, fail, or succeed without having done what
it says; what it left is not taken on its word (`Verify`, `Final`). `Signal`, `Kill`,
`XrayDies`, `PackageEnables` (a package upgrade makes `S24xray` executable again) and
`Reboot`, which starts what the two bits say, are the surroundings. `calm` is history:
nobody else has changed anything since the transaction began.

### Bootstrap apply

**BootstrapApply** is `apply_bootstrap_transaction` with the signal lifecycle around it. A
binary stands for its SHA-256. `Inspect` decides on the no-op, `MakeStaging` to `Extract`
obtain the release, `Recheck` looks whether the target is still the one inspected, `Backup`
to `Recorded` replace, probe and write the receipt, `Undo` to `Undone` put back, and
`BeginCleanup`/`Clean` end every run. `phase` is the phase of the handlers: a signal raises
in "active" (`SignalInside`, or `SignalLate` when the transaction's body is already left)
and is only noted elsewhere (`SignalNoted`). `Foreign` is another program that replaces the
binary, `Update` a repository that pins another release. `calm`, `late` and `sound` are
history: who disturbed this run, whether a signal was raised outside of the handlers, and
whether something is still to be repaired.

### Setup and install

**Setup** is `run_setup` and `run_install` of `routerkit.py`. `MakeWorkspace` to
`RestoreHandlers` are the part with secrets: the private directory, the profile source and
the generator as children under `SetupSignalLifecycle`, and the cleanup. The shutdown of such
a child (`Terminate`, `ForceEnd`) waits for a time after TERM and for a time after KILL; if it
outlives both (`ForceTimesOut`), the exception passes everything but the cleanup. `Consent` to
`Finish` are the public stages; bootstrap and autostart run under
`SetupBootstrapSupervisor` (`StartSupervised` to `EndSupervised`), the others as plain
children. `child` and `known` separate a process that runs from a handle the parent has:
a signal in between has nobody to go to yet and waits in `held`. What a SIGTERM, SIGHUP or
SIGINT does depends on where it finds the run, one action for each case
(`SignalBlocked` ... `InterruptEnds`).

### Files, profiles and routing

**PrivateIO** says what one `write_private_bytes_atomic` may leave at a path: the old
entry, the new one, or the new one with an error because the directory could not be
synchronized. **ProfileFiles** is the generator as a writer: it retires the manifest of the
run before, writes three fragments in place, and publishes the manifest last. A fragment
whose writing fails or is killed is `Torn`: a file that cannot be read as JSON.
**RoutingApply** adds `apply` (`Backup`, `Stage`, `Publish`, `Test`, `Restart`, `Verify`,
`Remember`, and `Undo...` for each way to fail), `reconcile`, and
`install-xray-direct.sh`, which copies the generator's files, torn or not, over the active ones
and reconciles; its own copies may be cut short too (`CopyCut`). `config` is the active
directory, `state` the override file, `live` what the running Xray was started with.
`UpdatePacks` is an update of the repository that changes what a service stands for. `sound`
is history, and what `Manageable` depends on. It is cleared by

- an installer that fails or is killed while it copies, or copies a torn fragment
  (`InstallFails`, `Kill`, `Copied`);
- an apply that is killed, in its rollback too, with its rule in the fragment (`Kill`), or
  whose rollback is unproven with the rule still there (`UndoFails`);
- a fragment or a state file put in place without its directory synchronized
  (`PublishUnsynced`, `RememberUnsynced`);
- an updated pack (`UpdatePacks`),

and set by an installation that ends well.

## 6. Runs

| Run | Question | Result |
|---|---|---|
| LiveInstallLocal | a local campaign, every kind of reported state change, two manifests, one fault anywhere | no stage keeps a stale result, what is recorded was carried out, native only behind it and to the locked manifest, and the refinement of StageLedger; 0.26 million states |
| LiveInstallExternal | an adopted runtime (ten stages written at once and taken back by later evidence) and the external native transaction, one fault | the inductive invariant of the proofs, and: a campaign completes, also after a lost or left-over packet, or its epochs are used up; 89 thousand states |
| NdmApplyAlone | the adapter as the only writer, four faults, repeated by the operator | a verified rollback is complete, nothing half made is saved, a rerun has nothing to do, and the command succeeds in the end; 5.7 thousand states |
| NdmApplyShared | two edits by an administrator, a lost reply | what the second read saw stays; 0.58 million states |
| NdmLostReply | a verified rollback after a command that only seemed to fail | violated; see section 9 |
| NativeExternal | packets on empty, older and ambiguous routers, with lost commands, a stopped transport, a damaged packet, restarts and an administrator | the commands reach what the packet expects, the reversals reach what it was made from, what is accepted as saved survives a restart; 0.27 million states |
| XrayInit | two invocations of the init script and three faults | one holder of the lock, no Xray unnamed or doubled that is not lost in a known way, a successful stop leaves none, nobody else's process is killed after a check; 1.66 million states |
| Autostart | enable and disable from every pair of init scripts, three faults and restarts | success is proven, a failure with the code of its error or signal is rolled back, with two endings excepted (section 9), no step lets the next boot start two; 0.29 million states |
| BootstrapApply | the replacement with three faults anywhere | the old binary or the new one, success only for the pinned one, a receipt that is true between runs, and a repeated command that gets there; 0.11 million states |
| BootstrapRerun | a second run after a success, without faults | violated; see section 9 |
| Setup | setup and install with three signals, interrupts, kills and failing stages at any step | secrets gone, a child left in five named ways only and a transaction by a kill alone, a transaction hears of every signal, success means all stages, a signal ends the run; 64 thousand states |
| RoutingApply | routing apply, reconcile, generator and installer on one directory, one fault, growing packs | a failed change leaves what was there but for a file that could not be synchronized, a successful one is in force, rules of others stay, the next command can work from what is there unless `sound` is cleared; 0.94 million states |

Bounds. Two later epochs are enough for a result to become stale, be renewed, and
become stale again, and for evidence to answer both the reboot and the native write.
One fault reaches a kill between each effect and its record, and a manifest or packet
that changes at any point, each followed by any number of commands. `Supplied` lists the snapshot sets a command line may
name: a snapshot is kept once taken. All state spaces are explored completely.
Deadlock is checked except in two runs: the operator may always give another command, so a
state without a successor would be an error of the model. It is not checked for the init
script, where every invocation ends and the system then rests, nor for autostart, where
the bound on the processes of Xray may be used up.

The adapter runs have two profiles (one in NdmApplyShared, whose edits multiply), three
proxy numbers and three policy numbers, so that numbers can run out, two devices of
which one is selected, and two contents of the guard. Four faults are a failed command,
a failed rollback, a restart and a kill of the next run.

Two invocations suffice for the races of the init script: one holds the lock, dies with it
or has just released it while the other looks, waits or asks for the status. Two pids let
a second Xray exist beside the first and let a pid file name the wrong one. Three faults
are, for instance, a failing command, the signal that follows it and a reused pid. The
first state may have a pid file left over from before.

Autostart starts from every combination of the two bits, of a receipt that is a file or
something else, and of an Xray that is in order, belongs to `S24xray` or is absent; four
processes of Xray are the one found, the restart, the one a rollback starts, and one more
for a reboot. BootstrapApply has two releases, one of which prints upstream's banner, and a
binary that is neither, so that a pin can change between two runs; three faults are a kill,
a failure of the next run and a signal in its rollback. Setup has four command lines that
between them reach every stage, every skip and both kinds of child. RoutingApply has two
profile sets, two services and three domains with a limit of two, so that a pack that grows
no longer fits; one fault is enough for each of its properties to need the rollback, and
what `sound` leaves out begins with the first.
NativeExternal has two profiles, two proxy and policy numbers besides 0 and one device.

## 7. Fairness

LiveInstall's `FairSpec` is used by LiveInstallExternal. `WF(Process)`: a run that has begun
goes on to its next write or its end. This assumes that the owners it calls return: an
NDM command is bounded by 15 seconds, but the orchestrator's own `_run` (940) sets no
timeout. `SF(RepeatCommand)`, `SF(AnswerCommand)` and
`SF(Help)` are assumptions on the operator, not on the code: a handoff is a request to
repeat the command, to return evidence of a named kind, or to deliver, save or remove
something, and an operator who ignores it for ever does not finish. Fairness is strong
because the enabling condition of an answer goes away while a run is in progress.
Answers are restricted to documents that answer the last outcome (`Answers`,
`UsefulEvidence`); nothing forces a *good* outcome of an owner, and faults remain
possible until `MaxFaults` is used. `EpochsUsedUp` is the bound of the model, not of
the code.

`NdmApply`'s `FairSpec` has `WF(Proceed)`, as the adapter goes on by itself and each
command ends within `NDM_TIMEOUT_SECONDS`, and assumes of the operator `SF(Command)`,
that the command is repeated, and `SF(RestoreStartup)`, that the saved configuration is
restored when the adapter refuses to work or could not roll back
(`docs/restore.md`).

`BootstrapApply`'s `WF(Run)` says that the operator repeats the command and that its steps
are carried out: downloads and package commands have time limits of their own. Nothing
makes them succeed, and failures, signals and kills stay possible until `MaxFaults` is
used. `Setup`'s `WF(Run)` is the progress of the process itself, which includes the end of
its grace periods, and `WF(PublicEnds)` that a public stage returns; no fairness is assumed
of the profile source or the wizard, which may wait for an answer for ever, so what ends
them after a signal is the run. The other runs use `Spec` and check safety only.

## 8. Proofs

Every theorem is for every value of the constants that satisfies the assumptions of its
module, and so for any number of faults.

`LiveInstallProofs` is for every set of evidence documents, every manifest set and either
runtime mode and transport; it assumes `EvidenceAssumption` (documents are records of the
declared shape) and `ModeAssumption` (the combinations the argument parser admits). It
proves `Inductive` an invariant of `Spec`, and from it

- `TypeCorrect`: `TypeOK`;
- `EpochsOrdered`: `StageEpochsOrdered`, done stages form a prefix and their epochs do
  not decrease;
- `StaleStagesReopened`: `NoStaleStage`;
- `DiscoveryCurrent`: `DiscoveryIsCurrent`;
- `RebootsProven`: `RebootProven`;
- `DnsPassesLate`: `DnsAfterNative`;
- `RouterChangesLate`: `NativeOnlyAfterProof`;

from a second invariant, `Truthful`,

- `StagesWereRun`: `RecordedMeansRan`; `RouterConfigured`: `NativeConfigured`;

and, from both, the refinement `ReceiptIsLedger`: `Spec => ImplementsLedger`.

Why the invariant is what it is. None of these properties is inductive, because the
receipt a run *holds* is what the next write puts on disk. `Inductive` therefore says
`Sound` of the receipt on disk (ordered, dated, epochs growing, discovery current,
fresh, DNS late, reboot proven) and that a run is *in step* with it (`InStep`): what it
holds is the receipt on disk, or that receipt after accepting the run's own evidence
and nothing else, and the latter only at the two places where the code has accepted
evidence without having written. `Fresh` must allow one exception (the native stage
keeps its result over the refresh it asked for itself); `DnsLate` then needs `Dated`
and `Current`. The other conjuncts carry what a stage relies on from the ones before
it: past setup the manifest file exists, a packet step has a packet, a run at `runtime`
is in external-evidence mode. The lemmas go by operation on a receipt (`MarkStages`,
`ResetFrom`, `Accepted`...), each stating that it preserves `Sound` under the
conditions its callers establish; then there is one lemma for each action, and a QED by
cases over `Next`. TLC checks `Inductive` in LiveInstallExternal.

`Inductive` is about documents only. What they say of the world needs `Truthful`: the
receipt on disk is `True` (every owner's stage on record was run in the epoch on record,
`Credited`; the native transaction on record describes the router, `NativeTrue`), an effect
not yet recorded is one of the stage the run is at and did what its result says
(`Reported`), the operator is asked to change the router only where the receipt expects it
(`Asked`), and a run works with the manifest its receipt has locked (`Locked`). The lemma
that carries it is that accepting evidence only takes claims back (`Kept`): a receipt that
claims no more than a true one is true. So the receipt in memory needs no account of its
own, and each action either leaves the world alone, or does in it what its next write says.

The refinement maps the receipt on disk to the list of its done stages. Every write is one
of three: nothing changes on that list, the epoch stays and done stages are added or
renewed with it, or a new epoch opens and any tail is cut. `Grown` says this between two
receipts, stage by stage, which is how the code writes (`MarkStages`, `ResetFrom`);
`GrowthIsLedgerStep` turns it, once, into the sequences StageLedger speaks of, where
`StageEpochsOrdered` makes the done stages a prefix; `EveryStepGrows` is by cases over the
actions. `Together` is what is missing otherwise: the profile, the generated configuration
and the plan are recorded in one write, so a write of them never leaves a gap.

`NdmApplyProofs` proves, for any number of profiles up to three, any number of ids and
devices, any initial configurations, faults and edits, and with lost replies or without:

- `AdapterTyped`: `TypeOK`, in which the shape of the rollback list is the part that
  matters: first commands only;
- `OthersUntouched`: `PresentUntouched`.

The invariant `RunInv` adds to the types, between the second read and the end of a run
(`Engaged`), that all entries of both lists belong to the plan and that the numbers the
plan creates were free at the second read; the latter comes from `LowestFree`
(`PlansSound`) and survives everything, since neither the plan nor `before` changes.
`EffectFrame` and `ReversalFrame` say that a command changes one object only.

For an adapter that is the only writer and gets every reply (`Alone`: `MaxEdits = 0` and
`LostReply = FALSE`, as in run NdmApplyAlone, whatever fails and is killed or restarted) it
proves

- `RollbackIsWhole`: `RollbackRestores`; `SavedIsWhole`: `SavedAllOrNothing`;
- `RerunChangesNothing`: `RerunIsNoop`.

Neither half of the hypothesis can go: NdmLostReply shows what a lost reply leaves behind,
and with an administrator at work the code promises no more than `OthersUntouched`. The
invariant adds that whatever differs from the second read is on the rollback list
(`Traced`), that the command which opens an object is still to be sent or can be undone
(`Opened`), and what a run knows after the verification and after a rollback. `RerunIsNoop`
rests on a lemma about `Plans`: a plan made of a configuration in which a plan is in force,
and which differs from the one that plan was made of in its objects only, chooses the same
objects (`ProxiesAgain`, `PoliciesAgain`).

`NativeExternalProofs` proves, for any configurations to start from, any number of lost
commands, damaged packets, restarts and edits,

- `ReversalsReach`: `RollbackReaches`; `AcceptanceLasts`: `AcceptedSurvives`;
- `CommandsAreEnough`: `CommandsReach`, if every endpoint is enabled (`AllEnabled`).

`ExtInv` has three parts. `Held`: the packet is what `PacketFor` made, and what is left of
its commands or reversals belongs to its plan. `Followed`: while nobody else edits, what the
parser sees differs from the packet's configuration in objects only whose commands may have
been carried over and not taken back (`Apart`, with the set `Touched`), and equals the
expected one from the running verification on. `Exact`: if nothing was lost, every object is
just as far as its remaining commands leave it (`Built`, which `BuiltSends` takes from one
command to the next). `RollbackReaches` is then `Apart` from nothing, and `CommandsReach` is
`Built` with nothing left to send (`BuiltReaches`). The parser drops the security level, so
several lemmas say that planning and `Applied` read nothing it drops (`ParsedReads`,
`ParsedPlans`, `ParsedApplied`). `AllEnabled` is needed since the commands for a new proxy
end with `up` whatever the manifest says, and justified since the generator writes enabled
endpoints only (`generate-xray-profiles.py:130`, `:252`). The two proof modules about the
router each carry the lemmas on plans and commands that they share.

`XrayInitProofs` proves, for any number of invocations, pids and faults (`InitAssumption`:
"no one" is neither an invocation nor a pid):

- `TypeCorrect`: `TypeOK`; `LockExcludes`: `MutualExclusion`; `LockFreed`: `FreedLock`;
- `KillsOnlyItsOwn`: `NoForeignKill`;
- `XrayAccounted`: `NoOrphan`; `OneXray`: `AtMostOneXray`; `StopStops`: `StoppedMeansNone`.

Its invariant `IInv` starts from `Basis`, which needs no account of Xrays: `Phases` (what
the place of an invocation says about its flags), `Holding` (who is between `mkdir` and
`rmdir` made the directory, which gives mutual exclusion at once; from the `rmdir` on
`LOCK_OWNED` says nothing any more, since the directory may be another's), and `Genuine`: an epoch
that is remembered is never a later one than the pid's and never somebody else's, so a
kill after a comparison hits only what was started. On top of it, `Children` says that an
Xray with a living parent is the only one and that the parent owns the lock, `Forks` that
a shell which is not yet Xray has its parent or a dead parent's lock, which is why a start
that finds no running Xray may spawn one, and `Stops` what a stop or a start in progress
knows about all Xrays. `Children` is what makes `AtMostOneXray` and `NoOrphan` inductive:
the pid file alone names at most one. Steps that leave processes and pid file alone keep
this account for one reason (`Quiets`, `QuietStep`), and so do steps after which no Xray is
left (`NothingRuns`, `EmptyStep`); the others are taken one by one (`XrayStep`).

`AutostartProofs` proves `TypeCorrect`, `EnableProves` (`EnabledIsProven`), `RollbackProves`
(`RolledBack`) and `OneBootScript` (`BootStartsOne`). The properties speak of ends, and the
invariant of what a transaction knows on the way: `Ending` (a transaction under way has not
ended), `BootSafe` (from the first step on `S24xray` is off, and a rollback finds `S23` as it
was or `S24xray` off, which is what lets it make `S23` executable again) and `EnableProven`
(from the verification to the end the verified Xray is another one than the one found). A
traceback ends where the error was, so of it `RolledBack` keeps what `BootSafe` says there.

`BootstrapApplyProofs` proves `TypeCorrect`, `NeverHalf` (`OldOrNew`), `SuccessIsPinned`
(`InstalledIsPinned`) and `ReceiptHolds` (`ReceiptIsTrue`). `Progress` says what the place of
a run implies for what it remembers, `Provided` that packages, a runnable release and the
backup are there from the step that made them on, `Tracked` which binary and receipt are at
their paths at each step if nobody else changed them, `Concluded` which of the endings
applies once the body is left, and `Sound` that a receipt is true outside of the
replacement. Each has a lemma of its own with one case per action, and each lemma uses
only the ones before it.

`SetupProofs` proves `TypeCorrect`, `SecretsRemoved` (`SecretsGone`), `SignalPassedOn`
(`SignalReachesChild`), `StageClaims` (`SuccessIsWhole`) and `NoneBehind`
(`NothingBehind`). `Emptied` follows the workspace,
`Located` where there may be a child and whether the run has its handle, and `Noted` what
has been noted of signals and what waits for the child: a signal noted before the child
exists is held until it is forwarded. `Counted` relates the stages done and those still to
come to the plan of the command line, at each place of a run; it is what makes "success
means all stages" inductive.

`RoutingApplyProofs` proves, for any services, domains, packs, requests and initial
configurations and any number of failures and kills, `RoutingManageable` (`Manageable`),
`RoutingAllOrNothing` (`AllOrNothing`), `RoutingInForce` (`AppliedInForce`),
`InstallationWhole` (`InstalledWhole`), `ForeignRuleKept` (`ForeignKept`) and
`ManifestIsWhole` (`ManifestWhole`). The properties speak of ends. `JobInv` and `ApplyInv`
say what an apply remembers and where fragment, state file and Xray are at each of its
steps, with the rollback as the way back along them; `ReconcileInv` that a reconcile works
on a fragment without a rule and publishes the one the state file asks for; `CopyInv` that
an installer which read a manifest still has all fragments of that set before it, since the
generator works between commands only (`GeneratorInv`). Each action leads either to a step
of the same command, or to an end whose property is proved there.

Only model-checked: liveness (`CampaignCompletes`, `RetrySucceeds`, `Converges`,
`SignalEnds`), which is out of the prover's reach. The other properties of the passing runs all have
a theorem. `RoutingApply.TypeOK`, which TLC finds true over the instance of its run, has
none: that a rule's domains form a sequence of domains is a fact about folds and flattened
sequences, and needs induction over them. The proofs about routing use of an expansion
only that equal overrides and packs give equal lists; `Shapes` types everything else.

## 9. Where the code and its documents disagree

Shown by a run:

- **A rollback is reported as verified that left an object behind.** The removal of a new
  object is noted after its first command has returned; a command that timed out may have
  made it all the same. What verifies a rollback is the default guard only. Every later
  plan then refuses the leftover. Run NdmLostReply.
- **A bootstrap rerun is no no-op with upstream's binary.** The no-op test compares the
  whole first line of `xray version` with `Xray` and the bare version
  (`routerkit_bootstrap_apply.py:1237`, `:684`), while upstream prints a banner after the
  version, which the validation of a download accepts (`:605`). `README.md:168` promises "a
  full no-op rerun". Run BootstrapRerun.

In the models, and left out of a property by name:

- **A reboot nobody authorized counts as done.** The orchestrator takes the evidence's
  "completed" before it looks at the authorization
  (`routerkit_live_install.py:1381` and `:1390`), while its own plan and the runbook
  say "only when required and authorized".
- **DNS evidence from the epoch of the native write can pass.** Whether DNS must be
  refreshed comes from the adapter call that is *recorded*. A run killed between the
  native write and its record makes the next call a no-op.
- **A resume without evidence at an authorized reboot ends in a traceback**
  (`routerkit_live_install.py:1397`) instead of the named handoff the runbook promises.
- **A lock given away and taken at once is an error.** After its `rmdir`, `release_lock` asks
  whether a `LOCKDIR` is there (`templates/S23xray-direct:187`). If another invocation has made
  its own in between, the first ends with exit 3 and `LOCK_OWNED` still set, although it has
  done and released all it had (`DirTaken`). A trap does not touch the other's directory, as
  the owner file is not its own.
- **A signal can leave an Xray behind and still end with the signal's own code.** Between
  `&` (`templates/S23xray-direct:381`) and `ACTIVE_CHILD_PID` (`:391`) the trap has
  nothing to clean, releases the lock and exits 130, 143 or 129, while `CHANGELOG.md:25`
  promises that any active child is cleaned or the exit status is 3.
- **A signal during the restart of an enable.** The wait for the init script raises before
  `restart_performed` is set (`routerkit_autostart.py:966-967`), so the rollback of a router
  on which no Xray ran does not stop the one it has started, and ends with the signal's
  code; `CHANGELOG.md:19` speaks of stopping "a transaction-started process". `RolledBack`
  asks for the mode and for an Xray that ran before.
- **Not every failure of an enable is rolled back.** The rollback handles `AutostartError`
  (`routerkit_autostart.py:985`), and `main` catches nothing else (`:1150`); an `OSError` of
  `chmod`, `fsync` or a wait ends as a traceback with exit code 1, the modes as they are at that
  moment, while `docs/architecture/autostart-execution-model.md:50` says "On failure it restores
  the original `S23xray-direct` mode" and `:55` "If rollback or recovery cleanup cannot be
  proven, enable exits `3`". `RolledBack` promises for this ending (`Escapes`) only that
  `S24xray` is off or `S23xray-direct` as it was, and the same for a receipt that cannot be
  removed, whose second error leaves the handler.
- **A child can outlive the shutdown of setup.** The wait after KILL has a limit
  (`routerkit.py:275`), and nothing catches its `TimeoutExpired`: the workspace is cleaned and
  the run ends as a traceback, the child not reaped (`ForceTimesOut`), while
  `docs/guided-installer.md:206` promises "bounded escalation when needed, child reaping, and
  workspace cleanup before exit". `NothingBehind` names this ending beside the others.
- **The installer replaces a fragment that worked by one that is cut short.** It tests only
  that the files are there (`install-xray-direct.sh:28`), and the generator writes them in place
  (`generate-xray-profiles.py:371`). `reconcile` or `xray -test` refuses the result, the script
  ends, and nothing is put back: Xray does not start again from it, and every plan is refused
  until an installation ends well (`Manageable` leaves this out). A copy of what was there is in
  the backup directory.
- **A cut backup blocks every later bootstrap.** It is copied under its final name
  (`routerkit_bootstrap_apply.py:1035`); after a kill the next run finds it by name, refuses
  its hash (`:1033`) and fails, for ever (`Stuck`).
- **A signal after the handlers are left.** Between the body of the transaction and
  `begin_cleanup` (`routerkit_bootstrap_apply.py:1446`) a signal is raised where nothing
  catches it, and the staging directory stays (`SignalLate`). In setup the same gap at
  `routerkit.py:1597` leaves the secrets (`SignalEscapes`).
- **"Transactionally"** (`routerkit_routing.py:12`) has two exceptions, one per file, both
  when the directory cannot be synchronized after the file was replaced. The routing fragment:
  the error (`:601`, `:605`) comes before `published` is set (`:768`), so nothing is undone, the
  new fragment stays and Xray is not restarted (`PublishUnsynced`). The state file: the apply is
  rolled back and the state file keeps the new request (`RememberUnsynced`).
  `docs/local-routing.md:116` says that "If a post-publication step fails, RouterKit attempts to
  restore the old `05_routing.json`"; the first of the two attempts nothing. Either way the exit
  says that the apply has failed, and not that something is left. `AllOrNothing` states both.

Two more things the init script's model shows and no document denies: a `status` beside a
`start` can remove the pid file just published (`RemoveStale`); and where the start time
of a new child cannot be read, it is killed by number (`:384`), the one kill without a
comparison (`KillUnrecorded`, which `NoForeignKill` leaves out on purpose). A signal between
`mkdir` and `LOCK_OWNED=1` leaves the lock directory to the operator with an ordinary
signal code (`FreedLock` speaks of an invocation that knows it owns the lock).

## 10. What is left out

- In LiveInstall: authority to move a device between policies; the freshness check of
  snapshot *paths* (a snapshot is its content); loss of an unsaved native configuration
  in a router restart and partial native changes (LiveInstall takes the native write as
  one step, and lets the local transaction rewrite whatever it finds, which allows more
  than the adapter's refusals do); a receipt whose identity differs from the command
  line (rejected before anything happens); whether the selected slot is enabled.
- In NdmApply: the content of the backup file; `status` and `plan`; the syntax of the
  configuration text; an object outside the id limits (refused); two profiles with the
  same port (excluded by the manifest).
- In XrayInit: symbolic links and other unsafe lock and pid paths (refused by the code
  before anything happens), a pid file whose content is not a number, an inaccessible
  `/proc`, children that are dead but not reaped, and whether an Xray that was lost is
  ever found again.
- In Autostart: the content of the init scripts and of `/proc`, which the code checks before
  each step and reports as an error (one flag, `fit`, and failing steps). The init script is
  called here with its outcomes; XrayInit has its inside.
- In BootstrapApply: the network. A download gives the pinned archive or fails
  (`routerkit_artifact_network.py` checks size and hash before anything is used), and so
  deadlines and redirects are outside.
- In Setup: the inside of the children; bootstrap and autostart, which Setup starts, are
  modelled on their own. `doctor`, `plan` and the other commands start one child and keep
  nothing.
- In RoutingApply: the ports that `--verify` is asked about. It also requires `S23` to be
  enabled, so an apply with autostart off always ends with a rollback that cannot be proven;
  a reconcile that finds its rule already there refuses; a state file whose expansion no
  longer fits after a pack has grown is refused by every command, also by one that would
  shrink it. All three are in the model as the code has them.
- Two orchestrators, adapters, bootstraps or routing applies at once: none of them has a
  lock or promises anything about it.
- Not modelled: the preview planner `routerkit_netcraze_plan.py`, device discovery and the
  parsing and rendering of profiles (sequential, without state, and the adapter that writes
  has a planner of its own, which is modelled); the bounded fetch of
  `routerkit_profile_network.py` (no state outlives it); the canary and public-data
  validators (no state); wording, logging and rendering; the shell stages other than the
  installer, which the orchestrator and Setup see as an exit status.
