------------------------------ MODULE Autostart ------------------------------
(***************************************************************************)
(* Enabling and disabling the start of Xray at boot                        *)
(* (scripts/routerkit_autostart.py, enable_autostart, disable_autostart).  *)
(* One transaction runs at a time, beside a package manager, an Xray that  *)
(* may end, a sender of signals and the router's restart.                  *)
(*                                                                         *)
(* An init script is known by whether it is executable.  The checks of the *)
(* installed files that no step changes (template, program, configuration  *)
(* directory, other init scripts) are one flag.                            *)
(***************************************************************************)
EXTENDS Naturals

CONSTANTS
  NoXray,
  Initial,     \* states of the router a transaction may find
  MaxEpochs,   \* bound on the processes of Xray
  MaxFaults    \* bound on faults, signals, kills and foreign changes

Switch == {"off", "on"}
Xray == [epoch : 1..MaxEpochs, by : {"S23", "S24"}, listens : BOOLEAN]

ASSUME AutostartAssumption ==
  /\ MaxEpochs \in Nat /\ MaxFaults \in Nat
  /\ NoXray \notin Xray
  /\ Initial \subseteq [s23 : Switch, s24 : Switch, receipt : {"absent", "file", "odd"},
                          xray : Xray \cup {NoXray}, fit : BOOLEAN]

VARIABLES
  s23, s24,  \* the executable bits of S23xray-direct and S24xray
  receipt,   \* autostart.json: "absent", a "file", or something "odd" at its path
  xray,      \* the running Xray
  epochs,    \* processes of Xray started so far
  fit,       \* the files the preflight looks at are in order
  pc,        \* the transaction's next step
  t,         \* what it remembers
  sig,       \* the first signal: "none", "pending" while masked, or "got"
  masked,    \* signals are blocked
  exit,      \* how the last transaction ended
  calm,      \* nobody else has changed anything since it began
  faults

vars == <<s23, s24, receipt, xray, epochs, fit, pc, t, sig, masked, exit, calm, faults>>

Why == {"failed", "signalled"}
Transaction == [mode : Switch, ran : Xray \cup {NoXray}, performed : BOOLEAN,
                why : Why, stuck : BOOLEAN, enables : BOOLEAN]

Forward == {"s24", "s23-off", "restart", "restarting", "restarted", "s23-on", "final", "receipt"}
Recovery == {"r-receipt", "r-mode", "r-runtime", "r-starting", "r-stopping", "r-check"}
Disabling == {"d-s24", "d-s23", "d-check", "d-receipt"}

TypeOK ==
  /\ s23 \in Switch /\ s24 \in Switch /\ receipt \in {"absent", "file", "odd"}
  /\ xray \in Xray \cup {NoXray} /\ epochs \in 0..MaxEpochs /\ fit \in BOOLEAN
  /\ pc \in Forward \cup Recovery \cup Disabling \cup {"idle"}
  /\ t \in Transaction
  /\ sig \in {"none", "pending", "got"} /\ masked \in BOOLEAN
  /\ exit \in Why \cup {"none", "ok", "noop", "refused", "unproven", "traceback", "killed",
                       "disabled", "enabled-signalled", "disabled-signalled"}
  /\ calm \in BOOLEAN /\ faults \in 0..MaxFaults

(* verify_runtime: the process of the pid file is this Xray and owns the   *)
(* expected listeners.                                                     *)
Verified(x) == x # NoXray /\ x.by = "S23" /\ x.listens

NewTransaction(enables) ==
  [mode |-> s23, ran |-> xray, performed |-> FALSE, why |-> "failed", stuck |-> FALSE,
   enables |-> enables]

Init ==
  /\ \E a \in Initial : /\ s23 = a.s23 /\ s24 = a.s24 /\ receipt = a.receipt
                       /\ xray = a.xray /\ fit = a.fit
                       /\ epochs = IF a.xray = NoXray THEN 0 ELSE a.xray.epoch
  /\ pc = "idle" /\ t = NewTransaction(FALSE)
  /\ sig = "none" /\ masked = FALSE /\ exit = "none" /\ calm = TRUE /\ faults = 0

-----------------------------------------------------------------------------
(* Steps *)

files == <<s23, s24, receipt>>
runtime == <<xray, epochs>>
signals == <<sig, masked>>
rest == <<fit, calm>>

Fault == faults < MaxFaults /\ faults' = faults + 1

GoTo(label) == pc' = label /\ UNCHANGED <<t, exit>>
End(status) == pc' = "idle" /\ exit' = status /\ UNCHANGED t

(* An AutostartError: the rollback begins.                                 *)
RollBack(why) == pc' = "r-receipt" /\ t' = [t EXCEPT !.why = why] /\ UNCHANGED exit

Process(by) ==
  /\ epochs < MaxEpochs /\ epochs' = epochs + 1
  /\ \E up \in BOOLEAN : xray' = [epoch |-> epochs + 1, by |-> by, listens |-> up]

(* The mask is lifted once the child is there.                             *)
Unmask == masked' = FALSE /\ sig' = IF sig = "pending" THEN "got" ELSE sig

Begin(enables, label) ==
  /\ t' = NewTransaction(enables) /\ pc' = label /\ exit' = "none"
  /\ sig' = "none" /\ masked' = TRUE /\ calm' = TRUE

VerifyOk == fit /\ s23 = "on" /\ s24 = "off" /\ Verified(xray)

Enable ==
  /\ pc = "idle" /\ fit /\ ~VerifyOk
  /\ Begin(TRUE, "s24")
  /\ UNCHANGED <<files, runtime, fit, faults>>

EnableNoop ==
  /\ pc = "idle" /\ VerifyOk
  /\ exit' = "noop" /\ calm' = TRUE
  /\ UNCHANGED <<files, runtime, fit, pc, t, signals, faults>>

EnableRefused ==
  /\ pc = "idle" /\ ~fit /\ End("refused")
  /\ UNCHANGED <<files, runtime, rest, signals, faults>>

(* Mutant: S24xray is left as it is.                                       *)
KeepS24 ==
  /\ pc = "s24" /\ GoTo("s23-off")
  /\ UNCHANGED <<files, runtime, rest, signals, faults>>

DisableS24 ==
  /\ pc = "s24" /\ s24' = "off" /\ GoTo("s23-off")
  /\ UNCHANGED <<s23, receipt, runtime, rest, signals, faults>>

DisableS23 ==
  /\ pc = "s23-off" /\ s23' = "off"
  /\ IF sig = "got" THEN RollBack("signalled") ELSE GoTo("restart")
  /\ UNCHANGED <<s24, receipt, runtime, rest, signals, faults>>

SpawnRestart ==
  /\ pc = "restart" /\ GoTo("restarting") /\ Unmask
  /\ UNCHANGED <<files, runtime, rest, faults>>

(* The script reports success; what it left is not taken on its word.  A   *)
(* signal that came meanwhile is raised before restart_performed is set.   *)
Restarted ==
  /\ pc = "restarting"
  /\ Process("S23") \/ UNCHANGED runtime
  /\ IF sig = "got" THEN RollBack("signalled")
     ELSE pc' = "restarted" /\ t' = [t EXCEPT !.performed = TRUE] /\ UNCHANGED exit
  /\ UNCHANGED <<files, rest, signals, faults>>

(* The script fails by itself, or by the signal its process group gets.    *)
RestartFails ==
  /\ pc = "restarting"
  /\ \/ sig = "got" /\ RollBack("signalled") /\ UNCHANGED faults
     \/ sig # "got" /\ RollBack("failed") /\ Fault
  /\ Process("S23") \/ UNCHANGED runtime \/ (xray' = NoXray /\ UNCHANGED epochs)
  /\ UNCHANGED <<files, rest, signals>>

(* Mutant: the epoch of the process is not compared.                       *)
VerifyAnyEpoch ==
  /\ pc = "restarted"
  /\ IF sig = "got" THEN RollBack("signalled")
     ELSE IF Verified(xray) THEN GoTo("s23-on") ELSE RollBack("failed")
  /\ UNCHANGED <<files, runtime, rest, signals, faults>>

Verify ==
  /\ pc = "restarted"
  /\ IF sig = "got" THEN RollBack("signalled")
     ELSE IF Verified(xray) /\ (Verified(t.ran) => xray.epoch # t.ran.epoch)
          THEN GoTo("s23-on") ELSE RollBack("failed")
  /\ UNCHANGED <<files, runtime, rest, signals, faults>>

EnableS23 ==
  /\ pc = "s23-on" /\ s23' = "on" /\ GoTo("final")
  /\ UNCHANGED <<s24, receipt, runtime, rest, signals, faults>>

Final ==
  /\ pc = "final"
  /\ IF sig = "got" THEN RollBack("signalled")
     ELSE IF VerifyOk THEN GoTo("receipt") ELSE RollBack("failed")
  /\ UNCHANGED <<files, runtime, rest, signals, faults>>

RemoveReceipt ==
  /\ pc = "receipt"
  /\ IF receipt = "odd" THEN RollBack("failed") /\ UNCHANGED receipt
     ELSE receipt' = "absent" /\ End(IF sig = "got" THEN "enabled-signalled" ELSE "ok")
  /\ UNCHANGED <<s23, s24, runtime, rest, signals, faults>>

(* A file that is no longer what it should be: the step is refused, or the *)
(* mode that was set is not the one that is read back.                     *)
StepFails ==
  /\ pc \in {"s24", "s23-off", "restart", "s23-on"} /\ Fault
  /\ s23' \in IF pc = "s23-on" THEN Switch ELSE {s23}
  /\ RollBack("failed")
  /\ UNCHANGED <<s24, receipt, runtime, rest, signals>>

(* Any other exception (an OSError of chmod, fsync, unlink or wait) leaves *)
(* the transaction without a rollback.                                     *)
Escapes ==
  /\ pc \in Forward \cup {"r-receipt", "r-starting", "r-stopping", "d-s24", "d-s23", "d-receipt"}
  /\ Fault /\ End("traceback")
  /\ xray' \in IF pc \in {"restarting", "r-starting", "r-stopping"} THEN {xray, NoXray} ELSE {xray}
  /\ UNCHANGED <<files, epochs, rest, signals>>

-----------------------------------------------------------------------------
(* Rollback *)

(* An error of this removal ends the rollback before it has begun.         *)
UndoReceipt ==
  /\ pc = "r-receipt"
  /\ IF receipt = "odd" THEN End("failed") /\ UNCHANGED receipt
     ELSE receipt' = "absent" /\ GoTo("r-mode")
  /\ UNCHANGED <<s23, s24, runtime, rest, signals, faults>>

UndoMode ==
  /\ pc = "r-mode" /\ s23' = t.mode /\ GoTo("r-runtime")
  /\ UNCHANGED <<s24, receipt, runtime, rest, signals, faults>>

UndoModeFails ==
  /\ pc = "r-mode" /\ Fault /\ GoTo("r-runtime")
  /\ UNCHANGED <<files, runtime, rest, signals>>

(* A runtime that was in order is started again if it is not in order now; *)
(* one that was not is stopped if the restart was completed.               *)
UndoRuntime ==
  /\ pc = "r-runtime"
  /\ GoTo(IF Verified(t.ran) THEN (IF Verified(xray) THEN "r-check" ELSE "r-starting")
          ELSE IF t.performed /\ Verified(xray) THEN "r-stopping" ELSE "r-check")
  /\ UNCHANGED <<files, runtime, rest, signals, faults>>

(* In a recovery section signals are noted and not passed on.              *)
UndoStart ==
  /\ pc = "r-starting" /\ Unmask /\ GoTo("r-check")
  /\ IF xray = NoXray THEN Process("S23") ELSE UNCHANGED runtime
  /\ UNCHANGED <<files, rest, faults>>

UndoStartFails ==
  /\ pc = "r-starting" /\ Fault /\ Unmask /\ GoTo("r-check")
  /\ xray' \in {xray, NoXray}
  /\ UNCHANGED <<files, epochs, rest>>

UndoStop ==
  /\ pc = "r-stopping" /\ Unmask /\ GoTo("r-check")
  /\ xray' = NoXray
  /\ UNCHANGED <<files, epochs, rest, faults>>

UndoStopFails ==
  /\ pc = "r-stopping" /\ Fault /\ Unmask
  /\ pc' = "r-check" /\ t' = [t EXCEPT !.stuck = TRUE] /\ UNCHANGED exit
  /\ xray' \in {xray, NoXray}
  /\ UNCHANGED <<files, epochs, rest>>

(* Mutant: the restored mode is not looked at.                             *)
UndoUnchecked ==
  /\ pc = "r-check"
  /\ End(IF t.stuck \/ (Verified(t.ran) /\ ~Verified(xray)) THEN "unproven" ELSE t.why)
  /\ UNCHANGED <<files, runtime, rest, signals, faults>>

UndoCheck ==
  /\ pc = "r-check"
  /\ End(IF t.stuck \/ s23 # t.mode \/ (Verified(t.ran) /\ ~Verified(xray))
         THEN "unproven" ELSE t.why)
  /\ UNCHANGED <<files, runtime, rest, signals, faults>>

-----------------------------------------------------------------------------
(* Disabling *)

Disable ==
  /\ pc = "idle" /\ Begin(FALSE, "d-s24")
  /\ UNCHANGED <<files, runtime, fit, faults>>

DisableBoth ==
  /\ \/ pc = "d-s24" /\ s24' = "off" /\ UNCHANGED s23 /\ GoTo("d-s23")
     \/ pc = "d-s23" /\ s23' = "off" /\ UNCHANGED s24 /\ GoTo("d-check")
  /\ UNCHANGED <<receipt, runtime, rest, signals, faults>>

DisableFails ==
  /\ pc \in {"d-s24", "d-s23"} /\ Fault /\ End("failed")
  /\ UNCHANGED <<files, runtime, rest, signals>>

CheckDisabled ==
  /\ pc = "d-check"
  /\ IF s24 = "on" \/ s23 = "on" THEN End("failed") ELSE GoTo("d-receipt")
  /\ UNCHANGED <<files, runtime, rest, signals, faults>>

(* The mask is lifted before the exit code is chosen.                      *)
Disabled ==
  /\ pc = "d-receipt"
  /\ IF receipt = "odd" THEN End("failed") /\ UNCHANGED receipt
     ELSE receipt' = "absent" /\ End(IF sig = "none" THEN "disabled" ELSE "disabled-signalled")
  /\ Unmask
  /\ UNCHANGED <<s23, s24, runtime, rest, faults>>

-----------------------------------------------------------------------------
(* The surroundings *)

Signal ==
  /\ pc # "idle" /\ sig = "none" /\ Fault
  /\ sig' = IF masked THEN "pending" ELSE "got"
  /\ UNCHANGED <<files, runtime, rest, pc, t, masked, exit>>

Kill ==
  /\ pc # "idle" /\ Fault /\ End("killed")
  /\ UNCHANGED <<files, runtime, rest, signals>>

XrayReady ==
  /\ xray # NoXray /\ ~xray.listens
  /\ xray' = [xray EXCEPT !.listens = TRUE]
  /\ UNCHANGED <<files, epochs, rest, pc, t, signals, exit, faults>>

XrayDies ==
  /\ xray # NoXray /\ Fault
  /\ xray' = NoXray /\ calm' = FALSE
  /\ UNCHANGED <<files, epochs, fit, pc, t, signals, exit>>

(* A package upgrade installs S24xray as an executable file.               *)
PackageEnables ==
  /\ s24 = "off" /\ Fault
  /\ s24' = "on" /\ calm' = FALSE
  /\ UNCHANGED <<s23, receipt, runtime, fit, pc, t, signals, exit>>

Reboot ==
  /\ pc = "idle" /\ calm' = FALSE
  /\ \/ s23 = "on" /\ Process("S23")
     \/ s24 = "on" /\ Process("S24")
     \/ s23 = "off" /\ s24 = "off" /\ xray' = NoXray /\ UNCHANGED epochs
  /\ UNCHANGED <<files, fit, pc, t, signals, exit, faults>>

Forwards ==
  \/ Enable \/ EnableNoop \/ EnableRefused
  \/ DisableS24 \/ DisableS23 \/ SpawnRestart \/ Restarted \/ RestartFails
  \/ Verify \/ EnableS23 \/ Final \/ RemoveReceipt \/ StepFails \/ Escapes

Backwards ==
  \/ UndoReceipt \/ UndoMode \/ UndoModeFails \/ UndoRuntime
  \/ UndoStart \/ UndoStartFails \/ UndoStop \/ UndoStopFails \/ UndoCheck

Off == Disable \/ DisableBoth \/ DisableFails \/ CheckDisabled \/ Disabled

Surroundings == Signal \/ Kill \/ XrayReady \/ XrayDies \/ PackageEnables \/ Reboot

Next == Forwards \/ Backwards \/ Off \/ Surroundings

Spec == Init /\ [][Next]_vars

-----------------------------------------------------------------------------
(* Properties *)

(* The exit codes of success: the next boot starts S23xray-direct and not  *)
(* S24xray, and an Xray that passed the strict verification runs, another  *)
(* one than before the restart.                                            *)
EnabledIsProven ==
  exit \in {"ok", "noop"} /\ calm =>
    /\ s23 = "on" /\ s24 = "off" /\ Verified(xray)
    /\ exit = "ok" /\ Verified(t.ran) => xray.epoch # t.ran.epoch

(* An enable that ends with the exit code of its error or signal, and not  *)
(* with 3, has put back the mode of S23xray-direct and has an Xray that    *)
(* passes the verification if there was one, whatever was refused and      *)
(* whenever the signal came.  Two endings are not covered, and promise     *)
(* only that S24xray is off or S23xray-direct as it was: the receipt that  *)
(* cannot be removed, whose second error ends the rollback, and any        *)
(* exception but AutostartError (an OSError of chmod, fsync, unlink or     *)
(* wait), which is a traceback with exit code 1 and no rollback at all.    *)
RolledBack ==
  t.enables /\ calm =>
    /\ exit \in Why /\ receipt # "odd"
         => s23 = t.mode /\ (Verified(t.ran) => Verified(xray))
    /\ exit \in Why \cup {"traceback"} => s24 = "off" \/ s23 = t.mode

(* S23xray-direct becomes executable only while S24xray is not: no kill or *)
(* restart between two steps lets the next boot start two Xrays.           *)
BootStartsOne == [][s23 = "off" /\ s23' = "on" /\ calm => s24 = "off"]_vars

=============================================================================
