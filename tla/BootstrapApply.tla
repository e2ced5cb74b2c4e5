---------------------------- MODULE BootstrapApply ----------------------------
(***************************************************************************)
(* The transaction that installs the pinned Xray                           *)
(* (scripts/routerkit_bootstrap_apply.py, apply_bootstrap_transaction).    *)
(* It may be repeated, killed between two steps, and signalled at any      *)
(* point; the handlers raise only in the phase "active".                   *)
(*                                                                         *)
(* A binary stands for its SHA-256; the archive of a release holds the     *)
(* binary of the same name.  The receipt is known by the release it        *)
(* records and the backup it names.                                        *)
(***************************************************************************)
EXTENDS Naturals

CONSTANTS
  Binary, Release,   \* executables, and those that are pinned releases
  Runs,              \* those whose "version" probe succeeds
  Bare,              \* those that print the bare version, without upstream's banner
  Package,           \* required Entware packages
  Absent, NoReceipt,
  Initial,           \* what the first run may find
  MaxFaults          \* bound on failures, signals, kills and foreign changes

Receipts == [release : Release, backup : Binary \cup {Absent}]

ASSUME BootstrapAssumption ==
  /\ Release \subseteq Binary /\ Runs \subseteq Binary /\ Bare \subseteq Runs
  /\ Release # {}
  /\ Absent \notin Binary /\ NoReceipt \notin Receipts
  /\ MaxFaults \in Nat
  /\ Initial \subseteq [target : Binary \cup {Absent}, packages : SUBSET Package, release : Release]

VARIABLES
  target,    \* /opt/sbin/xray
  receipt,   \* bootstrap.json
  backups,   \* the backup of each binary: "none", "whole", or "cut" short by a kill
  packages,  \* installed packages
  release,   \* the release the repository pins
  staging,   \* the directory made by this run: "none", "made", "known" to it, or "left" over
  pc,        \* the run's next step
  job,       \* what the run remembers
  phase,     \* the phase of the signal handlers
  asked,     \* a signal has been noted
  exit,      \* how the last run ended
  calm,      \* nobody else changed the binary, nor took the run's own steps from it, since it began
  late,      \* a signal was raised after the transaction's own handlers were left
  sound,     \* nothing has happened that a successful run must first repair
  faults

files == <<target, receipt, backups, packages>>
own == <<job, phase, asked>>
judged == <<calm, late, sound>>
vars == <<files, release, staging, pc, own, exit, judged, faults>>

Endings == {"ok", "noop", "failed", "signalled", "unproven"}
Job == [existing : Binary \cup {Absent}, receipt : Receipts \cup {NoReceipt}, release : Release,
        fresh : BOOLEAN, started : BOOLEAN, done : BOOLEAN, why : Endings]

Working == {"check", "packages", "inspect", "staging", "name", "download", "extract", "recheck", "backup", "replace",
            "replacing", "probe", "record", "recorded"}
Undoing == {"undo", "undo-receipt"}
Closing == {"undone", "leaving", "left", "cleanup"}

TypeOK ==
  /\ target \in Binary \cup {Absent} /\ receipt \in Receipts \cup {NoReceipt}
  /\ backups \in [Binary -> {"none", "whole", "cut"}]
  /\ packages \subseteq Package /\ release \in Release
  /\ staging \in {"none", "made", "known", "left"}
  /\ pc \in Working \cup Undoing \cup Closing \cup {"idle"}
  /\ job \in Job /\ phase \in {"inactive", "active", "terminating", "recovery", "cleanup"}
  /\ asked \in BOOLEAN /\ exit \in Endings \cup {"none", "killed"}
  /\ calm \in BOOLEAN /\ late \in BOOLEAN /\ sound \in BOOLEAN
  /\ faults \in 0..MaxFaults

Matches ==
  receipt # NoReceipt =>
    /\ target = receipt.release
    /\ receipt.backup # Absent => backups[receipt.backup] = "whole"

NewJob == [existing |-> target, receipt |-> receipt, release |-> release, fresh |-> FALSE,
           started |-> FALSE, done |-> FALSE, why |-> "ok"]

Init ==
  /\ \E a \in Initial : target = a.target /\ packages = a.packages /\ release = a.release
  /\ receipt = NoReceipt /\ backups = [b \in Binary |-> "none"] /\ staging = "none"
  /\ pc = "idle" /\ job = NewJob /\ phase = "inactive" /\ asked = FALSE
  /\ exit = "none" /\ calm = TRUE /\ late = FALSE /\ sound = TRUE /\ faults = 0

-----------------------------------------------------------------------------
(* Forward *)

Fault == faults < MaxFaults /\ faults' = faults + 1

GoTo(label) == pc' = label /\ UNCHANGED <<own, exit>>

(* The run leaves the body of the transaction.                             *)
Leave(why) == pc' = "leaving" /\ job' = [job EXCEPT !.why = why] /\ UNCHANGED <<phase, asked, exit>>

(* An error after the replacement has begun.                               *)
UndoFor(why) ==
  /\ pc' = "undo" /\ job' = [job EXCEPT !.why = why] /\ phase' = "recovery"
  /\ UNCHANGED <<asked, exit>>

Begin ==
  /\ pc = "idle"
  /\ job' = NewJob /\ phase' = "inactive" /\ asked' = FALSE
  /\ pc' = "check" /\ exit' = "none" /\ calm' = TRUE /\ late' = FALSE
  /\ staging' = "none"
  /\ UNCHANGED <<files, release, sound, faults>>

(* Directories, the present target and opkg are judged; the handlers are   *)
(* installed (in one step here).                                           *)
CheckEnvironment ==
  /\ pc = "check" /\ pc' = "packages" /\ phase' = "active"
  /\ UNCHANGED <<files, release, staging, job, asked, exit, judged, faults>>

InstallPackages ==
  /\ pc = "packages"
  /\ packages' = Package
  /\ job' = [job EXCEPT !.fresh = packages # Package] /\ pc' = "inspect"
  /\ UNCHANGED <<target, receipt, backups, release, staging, phase, asked, exit, judged, faults>>

PackagesFail ==
  /\ pc = "packages" /\ Fault
  /\ packages' \in {p \in SUBSET Package : packages \subseteq p}
  /\ Leave("failed")
  /\ UNCHANGED <<target, receipt, backups, release, staging, judged>>

(* Mutant: the installed binary is not compared with the receipt.          *)
TrustedReceipt == receipt # NoReceipt /\ receipt.release = release

(* The installed Xray is what the receipt and the pin say it is.  The      *)
(* version compared is the whole line that the binary prints.              *)
NothingToDo ==
  /\ ~job.fresh
  /\ receipt # NoReceipt /\ receipt.release = release
  /\ receipt.backup # Absent => backups[receipt.backup] = "whole"
  /\ target = release /\ target \in Bare

Inspect ==
  /\ pc = "inspect"
  /\ IF NothingToDo
     THEN pc' = "leaving" /\ job' = [job EXCEPT !.existing = target, !.receipt = receipt, !.why = "noop"]
     ELSE pc' = "staging" /\ job' = [job EXCEPT !.existing = target, !.receipt = receipt]
  /\ UNCHANGED <<files, release, staging, phase, asked, exit, judged, faults>>

(* The directory exists before the run has its name.                       *)
MakeStaging ==
  /\ pc = "staging" /\ staging' = "made" /\ GoTo("name")
  /\ UNCHANGED <<files, release, judged, faults>>

NameStaging ==
  /\ pc = "name" /\ staging' = "known" /\ GoTo("download")
  /\ UNCHANGED <<files, release, judged, faults>>

(* The archive has the pinned hash, or the step fails.                     *)
Download ==
  /\ pc = "download" /\ GoTo("extract")
  /\ UNCHANGED <<files, release, staging, judged, faults>>

(* Extraction and probe of the candidate.                                  *)
Extract ==
  /\ pc = "extract" /\ job.release \in Runs /\ GoTo("recheck")
  /\ UNCHANGED <<files, release, staging, judged, faults>>

Recheck ==
  /\ pc = "recheck"
  /\ IF job.existing = Absent THEN GoTo("replace")
     ELSE IF target = job.existing THEN GoTo("backup") ELSE Leave("failed")
  /\ UNCHANGED <<files, release, staging, judged, faults>>

(* Mutant: an existing backup is an error.                                 *)
BackupOnce ==
  /\ pc = "backup"
  /\ IF backups[job.existing] # "none" THEN Leave("failed") /\ UNCHANGED backups
     ELSE backups' = [backups EXCEPT ![job.existing] = "whole"] /\ GoTo("replace")
  /\ UNCHANGED <<target, receipt, packages, release, staging, judged, faults>>

(* A backup that is there is reused, if it is what its name says.          *)
Backup ==
  /\ pc = "backup"
  /\ IF backups[job.existing] = "cut" THEN Leave("failed") /\ UNCHANGED backups
     ELSE backups' = [backups EXCEPT ![job.existing] = "whole"] /\ GoTo("replace")
  /\ UNCHANGED <<target, receipt, packages, release, staging, judged, faults>>

StepFails ==
  /\ pc \in {"check", "inspect", "staging", "download", "extract", "recheck", "backup"} /\ Fault /\ Leave("failed")
  /\ UNCHANGED <<files, release, staging, judged>>

StartReplacement ==
  /\ pc = "replace" /\ pc' = "replacing" /\ job' = [job EXCEPT !.started = TRUE]
  /\ UNCHANGED <<files, release, staging, phase, asked, exit, judged, faults>>

Install ==
  /\ pc = "replacing" /\ target' = job.release /\ GoTo("probe")
  /\ UNCHANGED <<receipt, backups, packages, release, staging, judged, faults>>

Probe ==
  /\ pc = "probe"
  /\ IF target = job.release THEN GoTo("record") ELSE UndoFor("failed")
  /\ UNCHANGED <<files, release, staging, judged, faults>>

NewReceipt == [release |-> job.release, backup |-> job.existing]

Record ==
  /\ pc = "record" /\ receipt' = NewReceipt /\ GoTo("recorded")
  /\ UNCHANGED <<target, backups, packages, release, staging, judged, faults>>

Recorded ==
  /\ pc = "recorded" /\ pc' = "leaving" /\ job' = [job EXCEPT !.done = TRUE]
  /\ UNCHANGED <<files, release, staging, phase, asked, exit, judged, faults>>

ReplacementFails ==
  /\ pc \in {"replacing", "probe", "record"} /\ Fault
  /\ target' \in IF pc = "replacing" THEN {target, job.release} ELSE {target}
  /\ receipt' \in IF pc = "record" THEN {receipt, NewReceipt} ELSE {receipt}
  /\ UndoFor("failed")
  /\ UNCHANGED <<backups, packages, release, staging, judged>>

-----------------------------------------------------------------------------
(* Rollback and end *)

(* The recovery is over: signals raise again unless one has been noted.    *)
Recovered(why) ==
  /\ pc' = "undone" /\ job' = [job EXCEPT !.why = why]
  /\ phase' = IF asked THEN "terminating" ELSE "active"
  /\ UNCHANGED <<asked, exit>>

(* The old binary goes back from its backup, or the new one goes where     *)
(* there was none.  The restored binary is probed: one that never ran is   *)
(* restored too, but not proven.                                           *)
Undo ==
  /\ pc = "undo"
  /\ target' = job.existing
  /\ IF job.existing = Absent \/ job.existing \in Runs
     THEN GoTo("undo-receipt") ELSE Recovered("unproven")
  /\ UNCHANGED <<receipt, backups, packages, release, staging, judged, faults>>

(* Mutant: the receipt of the removed binary stays.                        *)
KeepReceipt ==
  /\ pc = "undo-receipt" /\ Recovered(job.why)
  /\ UNCHANGED <<files, release, staging, judged, faults>>

UndoReceipt ==
  /\ pc = "undo-receipt" /\ receipt' = NoReceipt /\ Recovered(job.why)
  /\ UNCHANGED <<target, backups, packages, release, staging, judged, faults>>

UndoFails ==
  /\ pc \in Undoing /\ Fault
  /\ target' \in IF pc = "undo" THEN {target, job.existing} ELSE {target}
  /\ Recovered("unproven")
  /\ UNCHANGED <<receipt, backups, packages, release, staging, judged>>

Undone ==
  /\ pc = "undone" /\ GoTo("leaving")
  /\ UNCHANGED <<files, release, staging, judged, faults>>

(* What is to be cleaned is handed over, and then the handlers are told.   *)
HandOver ==
  /\ pc = "leaving" /\ GoTo("left")
  /\ UNCHANGED <<files, release, staging, judged, faults>>

BeginCleanup ==
  /\ pc = "left" /\ pc' = "cleanup" /\ phase' = "cleanup"
  /\ UNCHANGED <<files, release, staging, job, asked, exit, judged, faults>>

Finish(status) ==
  /\ pc' = "idle" /\ exit' = status /\ phase' = "inactive"
  /\ sound' = (status # "unproven" /\ ~late /\ (sound \/ (calm /\ status \in {"ok", "noop"})))
  /\ UNCHANGED <<job, asked, calm, late>>

Clean ==
  /\ pc = "cleanup"
  /\ staging' = IF staging = "known" THEN "none" ELSE staging
  /\ Finish(IF job.why \in {"ok", "noop"} /\ asked THEN "signalled" ELSE job.why)
  /\ UNCHANGED <<files, release, faults>>

CleanFails ==
  /\ pc = "cleanup" /\ Fault
  /\ Finish(IF job.why = "unproven" THEN "unproven" ELSE "failed")
  /\ UNCHANGED <<files, release, staging>>

-----------------------------------------------------------------------------
(* Signals, kills and others *)

(* Mutant: recovery only for errors.                                       *)
SignalLeaves ==
  /\ pc' = "leaving" /\ job' = [job EXCEPT !.why = "signalled"] /\ phase' = "terminating"

(* In the body of the transaction: what has been replaced and not verified *)
(* is rolled back.                                                         *)
SignalRaised ==
  IF job.started /\ ~job.done
  THEN pc' = "undo" /\ job' = [job EXCEPT !.why = "signalled"] /\ phase' = "recovery"
  ELSE pc' = "leaving" /\ job' = [job EXCEPT !.why = "signalled"] /\ phase' = "terminating"

(* A copy that a signal cuts short is removed, a package installation may  *)
(* have done part of its work.                                             *)
SignalInside ==
  /\ pc \in (Working \ {"check"}) \cup {"undone"} /\ phase = "active" /\ Fault
  /\ asked' = TRUE /\ SignalRaised
  /\ packages' \in IF pc = "packages" THEN {p \in SUBSET Package : packages \subseteq p} ELSE {packages}
  /\ target' \in IF pc = "replacing" THEN {target, job.release} ELSE {target}
  /\ receipt' \in IF pc = "record" THEN {receipt, NewReceipt} ELSE {receipt}
  /\ UNCHANGED <<backups, release, staging, exit, judged>>

(* Outside of it nothing rolls back, and the staging directory is not      *)
(* handed over, or the cleanup is skipped as a whole.                      *)
SignalLate ==
  /\ pc \in {"leaving", "left"} /\ phase = "active" /\ Fault
  /\ asked' = TRUE /\ phase' = "terminating"
  /\ late' = TRUE /\ sound' = FALSE
  /\ staging' = IF staging = "none" THEN "none" ELSE "left"
  /\ job' = [job EXCEPT !.why = "signalled"]
  /\ IF pc = "leaving" THEN pc' = "left" /\ UNCHANGED exit ELSE pc' = "idle" /\ exit' = "signalled"
  /\ UNCHANGED <<files, release, calm>>

SignalNoted ==
  /\ pc # "idle" /\ phase \notin {"active", "inactive"} /\ ~asked /\ Fault
  /\ asked' = TRUE
  /\ UNCHANGED <<files, release, staging, pc, job, phase, exit, judged>>

(* Nothing is cleaned; a backup that was being copied stays as it is.      *)
Kill ==
  /\ pc # "idle" /\ Fault
  /\ pc' = "idle" /\ exit' = "killed" /\ phase' = "inactive"
  /\ staging' = IF staging = "none" THEN "none" ELSE "left"
  /\ backups' \in IF pc = "backup" /\ backups[job.existing] = "none"
                  THEN {backups, [backups EXCEPT ![job.existing] = "cut"]} ELSE {backups}
  /\ sound' = (sound /\ (job.started => job.done))
  /\ UNCHANGED <<target, receipt, packages, release, job, asked, calm, late>>

(* Another program installs or removes an Xray; the repository is updated. *)
Foreign ==
  /\ Fault /\ target' \in (Binary \cup {Absent}) \ {target}
  /\ calm' = FALSE /\ sound' = FALSE
  /\ UNCHANGED <<receipt, backups, packages, release, staging, pc, own, exit, late>>

Update ==
  /\ pc = "idle" /\ Fault /\ release' \in Release \ {release} /\ exit' = "none"
  /\ UNCHANGED <<files, staging, pc, own, judged>>

Run ==
  \/ Begin \/ CheckEnvironment \/ InstallPackages \/ Inspect \/ MakeStaging \/ NameStaging \/ Download \/ Extract \/ Recheck
  \/ Backup \/ StartReplacement \/ Install \/ Probe \/ Record \/ Recorded
  \/ Undo \/ UndoReceipt \/ Undone \/ HandOver \/ BeginCleanup \/ Clean

Failures == PackagesFail \/ StepFails \/ ReplacementFails \/ UndoFails \/ CleanFails

Others == SignalInside \/ SignalLate \/ SignalNoted \/ Kill \/ Foreign \/ Update

Next == Run \/ Failures \/ Others

Spec == Init /\ [][Next]_vars

(* The operator repeats the command, and its steps are carried out.        *)
FairSpec == Spec /\ WF_vars(Run)

-----------------------------------------------------------------------------
(* Properties *)

(* A run that ends, and was neither killed nor reported as unproven, has   *)
(* left the binary it found, or the pinned release with its receipt: at    *)
(* whatever step it failed and whenever the signal came.  A signal outside *)
(* of the transaction's own handlers is the exception.                     *)
OldOrNew ==
  exit \in {"failed", "signalled"} /\ calm /\ ~late =>
    \/ target = job.existing /\ receipt \in {job.receipt, NoReceipt}
    \/ target = job.release /\ receipt = NewReceipt

(* Success is never claimed for anything but the pinned release, with a    *)
(* receipt of its own and every required package.                          *)
InstalledIsPinned ==
  exit \in {"ok", "noop"} /\ calm =>
    /\ target = job.release /\ target \in Runs /\ packages = Package
    /\ receipt # NoReceipt /\ receipt.release = job.release

(* Between runs a receipt is true: the binary is the one it names and its  *)
(* backup is whole.  A kill in the middle of a replacement or a foreign    *)
(* change can make it lie, until a run has succeeded again.                *)
ReceiptIsTrue == pc = "idle" /\ sound => Matches

(* A backup cut short by a kill is found again under its hash, is refused  *)
(* as not matching, and ends every later run the same way.                 *)
Stuck == target \in Binary /\ backups[target] = "cut"

(* Repeating the command installs the pinned release after any failures,   *)
(* signals, kills and foreign changes, unless it is stuck.                 *)
Converges == []<>(Stuck \/ (target = release /\ receipt # NoReceipt /\ Matches))

(* README.md (168): the receipt enables a no-op rerun when release, hashes *)
(* and version match.  The version is compared with the whole line that    *)
(* upstream's binary prints, so a rerun downloads and replaces again, and  *)
(* the receipt then names the release itself as the backup.                *)
RerunIsNoop ==
  [][Inspect /\ target = release /\ receipt # NoReceipt /\ Matches /\ ~job.fresh
     => pc' = "leaving"]_vars
=============================================================================
