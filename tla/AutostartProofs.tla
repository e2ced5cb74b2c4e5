--------------------------- MODULE AutostartProofs ---------------------------
(***************************************************************************)
(* What Autostart guarantees for every set of initial states and every     *)
(* number of faults, signals and processes of Xray.                        *)
(***************************************************************************)
EXTENDS Autostart, TLAPS

-----------------------------------------------------------------------------
(* Types *)

(* The steps a transaction may come to, and how one may end.               *)
LEMMA Labels ==
  /\ \A l : l \in {"s24", "s23-off", "restart", "restarting", "restarted", "s23-on", "final",
                  "receipt", "r-receipt", "r-mode", "r-runtime", "r-starting", "r-stopping", "r-check",
                  "d-s24", "d-s23", "d-check", "d-receipt", "idle"}
            => l \in Forward \cup Recovery \cup Disabling \cup {"idle"}
  /\ \A w : w \in {"failed", "signalled"} => w \in Why
  /\ \A m : m \in {"off", "on"} => m \in Switch
BY DEF Forward, Recovery, Disabling, Why, Switch

(* A process that is started has a new epoch.                              *)
LEMMA ProcessType ==
  ASSUME epochs \in 0..MaxEpochs, NEW by \in {"S23", "S24"}, Process(by)
  PROVE  xray' \in Xray /\ epochs' \in 0..MaxEpochs /\ xray'.epoch = epochs + 1
<1>1. epochs \in Nat /\ MaxEpochs \in Nat /\ epochs < MaxEpochs /\ epochs' = epochs + 1
  BY AutostartAssumption DEF Process
<1>2. PICK up \in BOOLEAN : xray' = [epoch |-> epochs + 1, by |-> by, listens |-> up]
  BY DEF Process
<1>3. epochs + 1 \in 1..MaxEpochs
  BY <1>1
<1>4. QED
  BY <1>1, <1>2, <1>3 DEF Xray

(* An Xray that begins to listen is the same process.                      *)
LEMMA XrayListens ==
  ASSUME NEW x \in Xray
  PROVE  /\ [x EXCEPT !.listens = TRUE] \in Xray
         /\ [x EXCEPT !.listens = TRUE].epoch = x.epoch
         /\ [x EXCEPT !.listens = TRUE].by = x.by
         /\ [x EXCEPT !.listens = TRUE].listens = TRUE
BY DEF Xray

(* What a transaction remembers, and the three notes it makes later.       *)
LEMMA TransactionNotes ==
  ASSUME NEW u \in Transaction
  PROVE  /\ u.mode \in Switch /\ u.ran \in Xray \cup {NoXray} /\ u.why \in Why
         /\ \A w \in Why : [u EXCEPT !.why = w] \in Transaction
         /\ [u EXCEPT !.performed = TRUE] \in Transaction
         /\ [u EXCEPT !.stuck = TRUE] \in Transaction
BY DEF Transaction

(* A fault is counted up to the bound.                                     *)
LEMMA FaultType ==
  ASSUME faults \in 0..MaxFaults, Fault
  PROVE  faults' \in 0..MaxFaults
BY AutostartAssumption DEF Fault

(* The rollback begins with the reason noted.                              *)
LEMMA RollBackType ==
  ASSUME t \in Transaction, NEW why \in Why, RollBack(why)
  PROVE  pc' = "r-receipt" /\ t' \in Transaction /\ exit' = exit
BY TransactionNotes DEF RollBack

(* A transaction begins with what it finds.                                *)
LEMMA NewTransactionType ==
  ASSUME s23 \in Switch, xray \in Xray \cup {NoXray}, NEW enables \in BOOLEAN
  PROVE  NewTransaction(enables) \in Transaction
BY DEF NewTransaction, Transaction, Why

(* The initial states are typed.                                           *)
LEMMA InitTyped == Init => TypeOK
<1> SUFFICES ASSUME Init
             PROVE  TypeOK
  OBVIOUS
<1>1. PICK a \in Initial : /\ s23 = a.s23 /\ s24 = a.s24 /\ receipt = a.receipt
                          /\ xray = a.xray /\ fit = a.fit
                          /\ epochs = IF a.xray = NoXray THEN 0 ELSE a.xray.epoch
  BY DEF Init
<1>2. /\ a.s23 \in Switch /\ a.s24 \in Switch /\ a.receipt \in {"absent", "file", "odd"}
      /\ a.xray \in Xray \cup {NoXray} /\ a.fit \in BOOLEAN
  BY AutostartAssumption
<1>3. a.xray \in Xray => a.xray.epoch \in 1..MaxEpochs
  BY DEF Xray
<1>4. epochs \in 0..MaxEpochs
  BY <1>1, <1>2, <1>3, AutostartAssumption
<1>5. NewTransaction(FALSE) \in Transaction
  BY <1>1, <1>2, NewTransactionType
<1>6. 0 \in 0..MaxFaults
  BY AutostartAssumption
<1>7. QED
  BY <1>1, <1>2, <1>4, <1>5, <1>6, ZenonT(30) DEF Init, TypeOK

(* Every step keeps the types.                                             *)
LEMMA NextTyped == TypeOK /\ Next => TypeOK'
<1> SUFFICES ASSUME TypeOK, Next
             PROVE  TypeOK'
  OBVIOUS
<1>1. CASE Enable
  BY <1>1, NewTransactionType, Labels, ZenonT(30) DEF Enable, files, runtime, Begin, TypeOK
<1>2. CASE EnableNoop
  BY <1>2, ZenonT(30) DEF EnableNoop, files, runtime, signals, TypeOK
<1>3. CASE EnableRefused
  BY <1>3, Labels, ZenonT(30) DEF EnableRefused, files, runtime, signals, rest, End, TypeOK
<1>4. CASE DisableS24
  BY <1>4, Labels, ZenonT(30) DEF DisableS24, runtime, signals, rest, GoTo, TypeOK
<1>5. CASE DisableS23
  BY <1>5, RollBackType, Labels, ZenonT(30) DEF DisableS23, runtime, signals, rest, GoTo,
     TypeOK
<1>6. CASE SpawnRestart
  BY <1>6, Labels, ZenonT(30) DEF SpawnRestart, files, runtime, rest, GoTo, Unmask, TypeOK
<1>7. CASE Restarted
  <2>1. xray' \in Xray \cup {NoXray} /\ epochs' \in 0..MaxEpochs
    BY <1>7, ProcessType, ZenonT(30) DEF Restarted, runtime, TypeOK
  <2>2. pc' \in {"r-receipt", "restarted"} /\ t' \in Transaction /\ exit' = exit
    BY <1>7, RollBackType, TransactionNotes, ZenonT(30) DEF Restarted, TypeOK, Why
  <2>3. faults' \in 0..MaxFaults
    BY <1>7, FaultType, ZenonT(30) DEF Restarted, TypeOK
  <2>4. QED
    BY <1>7, <2>1, <2>2, <2>3, Labels, ZenonT(30) DEF Restarted, files, rest, signals,
       TypeOK
<1>8. CASE RestartFails
  <2>1. xray' \in Xray \cup {NoXray} /\ epochs' \in 0..MaxEpochs
    BY <1>8, ProcessType, ZenonT(30) DEF RestartFails, runtime, TypeOK
  <2>2. pc' \in {"r-receipt", "restarted"} /\ t' \in Transaction /\ exit' = exit
    BY <1>8, RollBackType, TransactionNotes, ZenonT(30) DEF RestartFails, TypeOK, Why
  <2>3. faults' \in 0..MaxFaults
    BY <1>8, FaultType, ZenonT(30) DEF RestartFails, TypeOK
  <2>4. QED
    BY <1>8, <2>1, <2>2, <2>3, Labels, ZenonT(30) DEF RestartFails, files, rest, signals,
       TypeOK
<1>9. CASE Verify
  <2>1. pc' \in {"r-receipt", "s23-on"} /\ t' \in Transaction /\ exit' = exit
    BY <1>9, RollBackType, Labels, ZenonT(30) DEF Verify, GoTo, TypeOK
  <2>2. QED
    BY <1>9, <2>1, Labels, ZenonT(30) DEF Verify, files, runtime, signals, rest, TypeOK
<1>10. CASE EnableS23
  BY <1>10, Labels, ZenonT(30) DEF EnableS23, runtime, signals, rest, GoTo, TypeOK
<1>11. CASE Final
  BY <1>11, RollBackType, Labels, ZenonT(30) DEF Final, files, runtime, signals, rest,
     GoTo, TypeOK
<1>12. CASE RemoveReceipt
  BY <1>12, RollBackType, Labels, ZenonT(30) DEF RemoveReceipt, runtime, signals, rest,
     End, TypeOK
<1>13. CASE StepFails
  <2>1. s23' \in Switch
    BY <1>13, ZenonT(30) DEF StepFails, TypeOK
  <2>2. pc' = "r-receipt" /\ t' \in Transaction /\ exit' = exit /\ faults' \in 0..MaxFaults
    BY <1>13, RollBackType, FaultType, ZenonT(30) DEF StepFails, TypeOK, Why
  <2>3. QED
    BY <1>13, <2>1, <2>2, Labels, ZenonT(30) DEF StepFails, runtime, rest, signals, TypeOK
<1>14. CASE Escapes
  BY <1>14, FaultType, Labels, ZenonT(30) DEF Escapes, files, signals, rest, End, TypeOK
<1>15. CASE UndoReceipt
  BY <1>15, Labels, ZenonT(30) DEF UndoReceipt, runtime, signals, rest, GoTo, End, TypeOK
<1>16. CASE UndoMode
  BY <1>16, TransactionNotes, Labels, ZenonT(30) DEF UndoMode, runtime, signals, rest,
     GoTo, TypeOK
<1>17. CASE UndoModeFails
  BY <1>17, FaultType, Labels, ZenonT(30) DEF UndoModeFails, files, runtime, signals, rest,
     GoTo, TypeOK
<1>18. CASE UndoRuntime
  BY <1>18, TransactionNotes, Labels, ZenonT(30) DEF UndoRuntime, files, runtime, signals,
     rest, GoTo, TypeOK
<1>19. CASE UndoStart
  BY <1>19, ProcessType, Labels, ZenonT(30) DEF UndoStart, files, runtime, rest, GoTo,
     Unmask, TypeOK
<1>20. CASE UndoStartFails
  BY <1>20, FaultType, Labels, ZenonT(30) DEF UndoStartFails, files, rest, GoTo, Unmask,
     TypeOK
<1>21. CASE UndoStop
  BY <1>21, Labels, ZenonT(30) DEF UndoStop, files, rest, GoTo, Unmask, TypeOK
<1>22. CASE UndoStopFails
  BY <1>22, FaultType, TransactionNotes, Labels, ZenonT(30) DEF UndoStopFails, files, rest,
     Unmask, TypeOK
<1>23. CASE UndoCheck
  BY <1>23, TransactionNotes, Labels, ZenonT(30) DEF UndoCheck, files, runtime, signals,
     rest, End, TypeOK
<1>24. CASE Disable
  BY <1>24, NewTransactionType, Labels, ZenonT(30) DEF Disable, files, runtime, Begin,
     TypeOK
<1>25. CASE DisableBoth
  BY <1>25, Labels, ZenonT(30) DEF DisableBoth, runtime, signals, rest, GoTo, TypeOK
<1>26. CASE DisableFails
  BY <1>26, FaultType, Labels, ZenonT(30) DEF DisableFails, files, runtime, signals, rest,
     End, TypeOK
<1>27. CASE CheckDisabled
  BY <1>27, Labels, ZenonT(30) DEF CheckDisabled, files, runtime, signals, rest, GoTo, End,
     TypeOK
<1>28. CASE Disabled
  BY <1>28, Labels, ZenonT(30) DEF Disabled, runtime, rest, End, Unmask, TypeOK
<1>29. CASE Signal
  BY <1>29, FaultType, ZenonT(30) DEF Signal, files, runtime, rest, TypeOK
<1>30. CASE Kill
  BY <1>30, FaultType, Labels, ZenonT(30) DEF Kill, files, runtime, signals, rest, End,
     TypeOK
<1>31. CASE XrayReady
  BY <1>31, XrayListens, ZenonT(30) DEF XrayReady, files, signals, rest, TypeOK
<1>32. CASE XrayDies
  BY <1>32, FaultType, ZenonT(30) DEF XrayDies, files, signals, TypeOK
<1>33. CASE PackageEnables
  <2>1. s24' \in Switch /\ calm' \in BOOLEAN /\ faults' \in 0..MaxFaults
    BY <1>33, FaultType, Labels, ZenonT(30) DEF PackageEnables, TypeOK
  <2>2. UNCHANGED <<s23, receipt, xray, epochs, fit, pc, t, sig, masked, exit>>
    BY <1>33 DEF PackageEnables, runtime, signals
  <2>3. QED
    BY <2>1, <2>2, ZenonT(30) DEF TypeOK
<1>34. CASE Reboot
  BY <1>34, ProcessType, ZenonT(30) DEF Reboot, files, signals, TypeOK
<1>35. QED
  BY <1>1, <1>2, <1>3, <1>4, <1>5, <1>6, <1>7, <1>8, <1>9, <1>10, <1>11, <1>12, <1>13,
     <1>14, <1>15, <1>16, <1>17, <1>18, <1>19, <1>20, <1>21, <1>22, <1>23, <1>24, <1>25,
     <1>26, <1>27, <1>28, <1>29, <1>30, <1>31, <1>32, <1>33, <1>34 DEF Next, Forwards,
     Backwards, Off, Surroundings

(* Every variable keeps its type, whatever fails and whenever a signal,    *)
(* a kill or a restart of the router comes.                                *)
THEOREM TypeCorrect == Spec => []TypeOK
<1>1. TypeOK /\ UNCHANGED vars => TypeOK'
  BY DEF TypeOK, vars
<1>2. QED
  BY InitTyped, NextTyped, <1>1, PTL DEF Spec

-----------------------------------------------------------------------------
(* The inductive invariant *)

(* A transaction that runs has not ended, and one that disables is known.  *)
Ending ==
  /\ pc # "idle" => exit = "none"
  /\ pc \in Disabling => ~t.enables

(* From the first step on S24xray is off, and in the rollback              *)
(* S23xray-direct is as it was found or S24xray is off.                    *)
BootSafe ==
  /\ pc = "s24" /\ calm => s23 = t.mode
  /\ pc \in Forward \ {"s24"} /\ calm => s24 = "off"
  /\ pc \in Recovery /\ calm => s23 = t.mode \/ s24 = "off"

(* The Xray that was verified is another one than the one found, and still *)
(* the one that runs when the receipt goes.                                *)
EnableProven ==
  /\ pc \in {"s23-on", "final", "receipt"} /\ calm =>
       Verified(xray) /\ (Verified(t.ran) => xray.epoch # t.ran.epoch)
  /\ pc = "receipt" /\ calm => s23 = "on" /\ s24 = "off"

IInv == Ending /\ BootSafe /\ EnableProven /\ EnabledIsProven /\ RolledBack

(* The initial states satisfy the invariant.                               *)
LEMMA InitInv == Init => IInv
BY SMTT(30) DEF Init, IInv, Ending, BootSafe, EnableProven, EnabledIsProven, RolledBack,
   NewTransaction, Disabling, Forward, Recovery, Why

(* Every step of the transaction and of its surroundings keeps it.         *)
LEMMA NextInv == TypeOK /\ TypeOK' /\ IInv /\ Next => IInv'
<1> SUFFICES ASSUME TypeOK, TypeOK', IInv, Next
             PROVE  IInv'
  OBVIOUS
<1> USE DEF IInv, Ending, BootSafe, EnableProven, EnabledIsProven, RolledBack
<1>1. CASE Enable
  BY <1>1, SMTT(30) DEF Enable, files, runtime, Begin, NewTransaction, VerifyOk, Verified,
     TypeOK, Why, Forward, Recovery, Disabling
<1>2. CASE EnableNoop
  BY <1>2, SMTT(30) DEF EnableNoop, files, runtime, signals, VerifyOk, Verified, TypeOK,
     Why, Forward, Recovery, Disabling
<1>3. CASE EnableRefused
  BY <1>3, SMTT(30) DEF EnableRefused, files, runtime, signals, rest, End, TypeOK, Why,
     Forward, Recovery, Disabling
<1>4. CASE DisableS24
  BY <1>4, SMTT(30) DEF DisableS24, runtime, signals, rest, GoTo, TypeOK, Why, Forward, Recovery,
     Disabling
<1>5. CASE DisableS23
  BY <1>5, SMTT(30) DEF DisableS23, runtime, signals, rest, GoTo, RollBack, TypeOK, Why,
     Forward, Recovery, Disabling
<1>6. CASE SpawnRestart
  BY <1>6, SMTT(30) DEF SpawnRestart, files, runtime, rest, GoTo, Unmask, TypeOK, Why,
     Forward, Recovery, Disabling
<1>7. CASE Restarted
  BY <1>7, SMTT(30) DEF Restarted, files, runtime, signals, rest, RollBack, Process,
     TypeOK, Why, Forward, Recovery, Disabling
<1>8. CASE RestartFails
  BY <1>8, SMTT(30) DEF RestartFails, files, runtime, signals, rest, Fault, RollBack,
     Process, TypeOK, Why, Forward, Recovery, Disabling
<1>9. CASE Verify
  BY <1>9, SMTT(30) DEF Verify, files, runtime, signals, rest, GoTo, RollBack, Verified,
     TypeOK, Why, Forward, Recovery, Disabling
<1>10. CASE EnableS23
  BY <1>10, SMTT(30) DEF EnableS23, runtime, signals, rest, GoTo, TypeOK, Why, Forward, Recovery,
     Disabling
<1>11. CASE Final
  BY <1>11, SMTT(30) DEF Final, files, runtime, signals, rest, GoTo, RollBack, VerifyOk,
     Verified, TypeOK, Why, Forward, Recovery, Disabling
<1>12. CASE RemoveReceipt
  BY <1>12, SMTT(30) DEF RemoveReceipt, runtime, signals, rest, End, RollBack, TypeOK, Why,
     Forward, Recovery, Disabling
<1>13. CASE StepFails
  BY <1>13, SMTT(30) DEF StepFails, runtime, signals, rest, Fault, RollBack, TypeOK, Why,
     Forward, Recovery, Disabling
<1>14. CASE Escapes
  BY <1>14, SMTT(30) DEF Escapes, files, signals, rest, Fault, End, TypeOK, Why, Forward, Recovery,
     Disabling
<1>15. CASE UndoReceipt
  BY <1>15, SMTT(30) DEF UndoReceipt, runtime, signals, rest, GoTo, End, TypeOK, Why,
     Forward, Recovery, Disabling
<1>16. CASE UndoMode
  BY <1>16, SMTT(30) DEF UndoMode, runtime, signals, rest, GoTo, TypeOK, Why, Forward, Recovery,
     Disabling
<1>17. CASE UndoModeFails
  BY <1>17, SMTT(30) DEF UndoModeFails, files, runtime, signals, rest, Fault, GoTo, TypeOK,
     Why, Forward, Recovery, Disabling
<1>18. CASE UndoRuntime
  BY <1>18, SMTT(30) DEF UndoRuntime, files, runtime, signals, rest, GoTo, Verified,
     TypeOK, Why, Forward, Recovery, Disabling
<1>19. CASE UndoStart
  BY <1>19, SMTT(30) DEF UndoStart, files, runtime, rest, GoTo, Process, Unmask, TypeOK,
     Why, Forward, Recovery, Disabling
<1>20. CASE UndoStartFails
  BY <1>20, SMTT(30) DEF UndoStartFails, files, rest, Fault, GoTo, Unmask, TypeOK, Why,
     Forward, Recovery, Disabling
<1>21. CASE UndoStop
  BY <1>21, SMTT(30) DEF UndoStop, files, rest, GoTo, Unmask, TypeOK, Why, Forward, Recovery,
     Disabling
<1>22. CASE UndoStopFails
  BY <1>22, SMTT(30) DEF UndoStopFails, files, rest, Fault, Unmask, TypeOK, Why, Forward, Recovery,
     Disabling
<1>23. CASE UndoCheck
  <2>1. t.why \in Why
    BY TransactionNotes DEF TypeOK
  <2>2. QED
    BY <1>23, <2>1, SMTT(30) DEF UndoCheck, files, runtime, rest, End, Why, Disabling, Forward,
       Recovery
<1>24. CASE Disable
  BY <1>24, SMTT(30) DEF Disable, files, runtime, Begin, NewTransaction, TypeOK, Why,
     Forward, Recovery, Disabling
<1>25. CASE DisableBoth
  BY <1>25, SMTT(30) DEF DisableBoth, runtime, signals, rest, GoTo, TypeOK, Why, Forward, Recovery,
     Disabling
<1>26. CASE DisableFails
  BY <1>26, SMTT(30) DEF DisableFails, files, runtime, signals, rest, Fault, End, TypeOK,
     Why, Forward, Recovery, Disabling
<1>27. CASE CheckDisabled
  BY <1>27, SMTT(30) DEF CheckDisabled, files, runtime, signals, rest, GoTo, End, TypeOK,
     Why, Forward, Recovery, Disabling
<1>28. CASE Disabled
  BY <1>28, SMTT(30) DEF Disabled, runtime, rest, End, Unmask, TypeOK, Why, Forward, Recovery,
     Disabling
<1>29. CASE Signal
  BY <1>29, SMTT(30) DEF Signal, files, runtime, rest, Fault, TypeOK, Why, Forward, Recovery,
     Disabling
<1>30. CASE Kill
  BY <1>30, SMTT(30) DEF Kill, files, runtime, signals, rest, Fault, End, TypeOK, Why,
     Forward, Recovery, Disabling
<1>31. CASE XrayReady
  <2>1. /\ xray \in Xray /\ (Verified(xray) => Verified(xray'))
        /\ xray'.epoch = xray.epoch /\ UNCHANGED <<s23, s24, receipt, pc, t, exit, calm>>
    BY <1>31, XrayListens DEF XrayReady, TypeOK, files, rest, Verified
  <2>2. QED
    BY <2>1, SMTT(30)
<1>32. CASE XrayDies
  BY <1>32, SMTT(30) DEF XrayDies, files, signals, Fault, TypeOK, Why, Forward, Recovery, Disabling
<1>33. CASE PackageEnables
  BY <1>33, SMTT(30) DEF PackageEnables, runtime, signals, Fault, TypeOK, Why, Forward, Recovery,
     Disabling
<1>34. CASE Reboot
  BY <1>34, SMTT(30) DEF Reboot, files, signals, Process, TypeOK, Why, Forward, Recovery, Disabling
<1>35. QED
  BY <1>1, <1>2, <1>3, <1>4, <1>5, <1>6, <1>7, <1>8, <1>9, <1>10, <1>11, <1>12, <1>13,
     <1>14, <1>15, <1>16, <1>17, <1>18, <1>19, <1>20, <1>21, <1>22, <1>23, <1>24, <1>25,
     <1>26, <1>27, <1>28, <1>29, <1>30, <1>31, <1>32, <1>33, <1>34 DEF Next, Forwards,
     Backwards, Off, Surroundings

(* The invariant holds in every state.                                     *)
LEMMA Invariant == Spec => []IInv
<1>1. IInv /\ UNCHANGED vars => IInv'
  BY SMTT(30) DEF IInv, vars, Ending, BootSafe, EnableProven, EnabledIsProven, RolledBack,
     Verified
<1>2. QED
  BY TypeCorrect, InitInv, NextInv, <1>1, PTL DEF Spec

-----------------------------------------------------------------------------
(* Results *)

(* An enable that reports success has left S23xray-direct alone in charge  *)
(* of the next boot, and a new Xray that passed the verification.          *)
THEOREM EnableProves == Spec => []EnabledIsProven
<1>1. IInv => EnabledIsProven
  BY DEF IInv
<1>2. QED
  BY Invariant, <1>1, PTL

(* An enable that ends with the code of its error or signal has put back   *)
(* the mode, and has a verified Xray if it found one; where its rollback   *)
(* was cut short by an odd receipt, or a traceback left none, no boot      *)
(* starts two Xrays that would not have done so before.                    *)
THEOREM RollbackProves == Spec => []RolledBack
<1>1. IInv => RolledBack
  BY DEF IInv
<1>2. QED
  BY Invariant, <1>1, PTL

(* S23xray-direct never becomes executable beside S24xray.                 *)
THEOREM OneBootScript == Spec => BootStartsOne
<1>1. ASSUME IInv, Next, s23 = "off", s23' = "on", calm
      PROVE  s24 = "off"
  <2>1. EnableS23 \/ UndoMode \/ StepFails
    BY <1>1, SMTT(30) DEF Next, Forwards, Backwards, Off, Surroundings, Enable, EnableNoop,
       EnableRefused, DisableS24, DisableS23, SpawnRestart, Restarted, RestartFails, Verify,
       Final, RemoveReceipt, Escapes, UndoReceipt, UndoModeFails, UndoRuntime, UndoStart,
       UndoStartFails, UndoStop, UndoStopFails, UndoCheck, Disable, DisableBoth, DisableFails,
       CheckDisabled, Disabled, Signal, Kill, XrayReady, XrayDies, PackageEnables, Reboot, files
  <2>2. pc = "s23-on" \/ (pc = "r-mode" /\ t.mode = "on")
    BY <1>1, <2>1 DEF EnableS23, UndoMode, StepFails
  <2>3. QED
    BY <1>1, <2>2 DEF IInv, BootSafe, Forward, Recovery
<1>2. QED
  BY Invariant, <1>1, PTL DEF Spec, BootStartsOne

=============================================================================
