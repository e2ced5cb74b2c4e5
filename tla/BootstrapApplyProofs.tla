------------------------ MODULE BootstrapApplyProofs ------------------------
(***************************************************************************)
(* What BootstrapApply guarantees for every set of releases, packages and  *)
(* initial states and every number of failures, signals, kills and foreign *)
(* changes.                                                                *)
(***************************************************************************)
EXTENDS BootstrapApply, TLAPS

-----------------------------------------------------------------------------
(* Types *)

(* The steps a run may come to.                                            *)
LEMMA Labels ==
  \A l : l \in {"check", "packages", "inspect", "staging", "name", "download", "extract", "recheck",
               "backup", "replace", "replacing", "probe", "record", "recorded", "undo",
               "undo-receipt", "undone", "leaving", "left", "cleanup", "idle"}
        => l \in Working \cup Undoing \cup Closing \cup {"idle"}
BY DEF Working, Undoing, Closing

(* A fault is counted up to the bound.                                     *)
LEMMA FaultType ==
  ASSUME faults \in 0..MaxFaults, Fault
  PROVE  faults' \in 0..MaxFaults
BY BootstrapAssumption DEF Fault

(* A release is a binary that a receipt may record.                        *)
LEMMA NewReceiptType ==
  ASSUME job \in Job
  PROVE  NewReceipt \in Receipts /\ job.release \in Binary
BY BootstrapAssumption DEF Job, NewReceipt, Receipts

(* A run begins with what it finds.                                        *)
LEMMA NewJobType ==
  ASSUME target \in Binary \cup {Absent}, receipt \in Receipts \cup {NoReceipt}, release \in Release
  PROVE  NewJob \in Job
BY DEF NewJob, Job, Endings

(* What a run remembers, and the notes it makes later.                     *)
LEMMA JobNotes ==
  ASSUME NEW j \in Job
  PROVE  /\ j.existing \in Binary \cup {Absent} /\ j.receipt \in Receipts \cup {NoReceipt}
         /\ j.release \in Release /\ j.why \in Endings
         /\ \A w \in Endings : [j EXCEPT !.why = w] \in Job
         /\ \A w \in {"failed", "signalled", "unproven"} : [j EXCEPT !.why = w] \in Job
         /\ \A f \in BOOLEAN : [j EXCEPT !.fresh = f] \in Job
         /\ [j EXCEPT !.started = TRUE] \in Job /\ [j EXCEPT !.done = TRUE] \in Job
         /\ \A b \in Binary \cup {Absent}, r \in Receipts \cup {NoReceipt} :
              /\ [j EXCEPT !.existing = b, !.receipt = r] \in Job
              /\ [j EXCEPT !.existing = b, !.receipt = r, !.why = "noop"] \in Job
BY DEF Job, Endings

(* The initial states are typed.                                           *)
LEMMA InitTyped == Init => TypeOK
<1> SUFFICES ASSUME Init
             PROVE  TypeOK
  OBVIOUS
<1>1. target \in Binary \cup {Absent} /\ packages \subseteq Package /\ release \in Release
  BY BootstrapAssumption DEF Init
<1>2. receipt \in Receipts \cup {NoReceipt} /\ NewJob \in Job /\ 0 \in 0..MaxFaults
  BY <1>1, NewJobType, BootstrapAssumption DEF Init
<1>3. QED
  BY <1>1, <1>2, ZenonT(30) DEF Init, TypeOK

(* Every step keeps the types.                                             *)
LEMMA NextTyped == TypeOK /\ Next => TypeOK'
<1> SUFFICES ASSUME TypeOK, Next
             PROVE  TypeOK'
  OBVIOUS
<1>1. CASE Begin
  BY <1>1, NewJobType, JobNotes, Labels, ZenonT(30) DEF Begin, files, TypeOK
<1>2. CASE CheckEnvironment
  BY <1>2, JobNotes, Labels, ZenonT(30) DEF CheckEnvironment, files, judged, TypeOK
<1>3. CASE InstallPackages
  BY <1>3, JobNotes, Labels, ZenonT(30) DEF InstallPackages, judged, TypeOK
<1>4. CASE Inspect
  <2>1. /\ [job EXCEPT !.existing = target, !.receipt = receipt, !.why = "noop"] \in Job
        /\ [job EXCEPT !.existing = target, !.receipt = receipt] \in Job
    BY DEF TypeOK, Job, Endings
  <2>2. job' \in Job /\ pc' \in {"leaving", "staging"}
    BY <1>4, <2>1, ZenonT(30) DEF Inspect
  <2>3. pc' \in Working \cup Undoing \cup Closing \cup {"idle"}
    BY <2>2 DEF Working, Closing
  <2>4. UNCHANGED <<target, receipt, backups, packages, release, staging, phase, asked,
     exit,
                    calm, late, sound, faults>>
    BY <1>4 DEF Inspect, files, judged
  <2>5. QED
    BY <2>2, <2>3, <2>4, ZenonT(30) DEF TypeOK
<1>5. CASE MakeStaging
  BY <1>5, Labels, ZenonT(30) DEF MakeStaging, files, own, judged, GoTo, TypeOK
<1>6. CASE NameStaging
  BY <1>6, Labels, ZenonT(30) DEF NameStaging, files, own, judged, GoTo, TypeOK
<1>7. CASE Download
  BY <1>7, Labels, ZenonT(30) DEF Download, files, own, judged, GoTo, TypeOK
<1>8. CASE Extract
  BY <1>8, JobNotes, Labels, ZenonT(30) DEF Extract, files, own, judged, GoTo, TypeOK
<1>9. CASE Recheck
  <2>1. job' \in Job /\ pc' \in {"leaving", "backup", "replace"}
    BY <1>9, JobNotes, ZenonT(30) DEF Recheck, TypeOK, GoTo, own, Leave, Endings
  <2>2. pc' \in Working \cup Undoing \cup Closing \cup {"idle"}
    BY <2>1 DEF Working, Closing
  <2>3. UNCHANGED <<files, release, staging, phase, asked, exit, judged, faults>>
    BY <1>9 DEF Recheck, GoTo, own, Leave
  <2>4. QED
    BY <2>1, <2>2, <2>3, ZenonT(30) DEF TypeOK, files, judged
<1>10. CASE Backup
  <2>1. job' \in Job /\ pc' \in {"leaving", "replace"}
    BY <1>10, JobNotes, ZenonT(30) DEF Backup, TypeOK, GoTo, own, Leave, Endings
  <2>2. backups' \in [Binary -> {"none", "whole", "cut"}]
    BY <1>10, SMTT(30) DEF Backup, TypeOK
  <2>3. pc' \in Working \cup Undoing \cup Closing \cup {"idle"}
    BY <2>1 DEF Working, Closing
  <2>4. UNCHANGED <<target, receipt, packages, release, staging, phase, asked, exit, judged,
                    faults>>
    BY <1>10 DEF Backup, GoTo, own, Leave
  <2>5. QED
    BY <2>1, <2>2, <2>3, <2>4, ZenonT(30) DEF TypeOK, judged
<1>11. CASE StartReplacement
  BY <1>11, JobNotes, Labels, ZenonT(30) DEF StartReplacement, files, judged, TypeOK
<1>12. CASE Install
  BY <1>12, NewReceiptType, ZenonT(30) DEF Install, judged, GoTo, own, TypeOK, Working
<1>13. CASE Probe
  <2>1. /\ job' \in Job /\ pc' \in {"record", "undo"}
        /\ phase' \in {phase, "recovery"}
    BY <1>13, JobNotes, ZenonT(30) DEF Probe, TypeOK, GoTo, own, UndoFor, Endings
  <2>2. pc' \in Working \cup Undoing \cup Closing \cup {"idle"}
    BY <2>1 DEF Working, Undoing
  <2>3. UNCHANGED <<files, release, staging, asked, exit, judged, faults>>
    BY <1>13 DEF Probe, GoTo, own, UndoFor
  <2>4. QED
    BY <2>1, <2>2, <2>3, ZenonT(30) DEF TypeOK, files, judged
<1>14. CASE Record
  BY <1>14, NewReceiptType, Labels, ZenonT(30) DEF Record, own, judged, GoTo, TypeOK
<1>15. CASE Recorded
  BY <1>15, JobNotes, Labels, ZenonT(30) DEF Recorded, files, judged, TypeOK
<1>16. CASE Undo
  BY <1>16, JobNotes, Labels, ZenonT(30) DEF Undo, own, judged, GoTo, Recovered, TypeOK
<1>17. CASE UndoReceipt
  BY <1>17, JobNotes, Labels, ZenonT(30) DEF UndoReceipt, judged, Recovered, TypeOK
<1>18. CASE Undone
  BY <1>18, Labels, ZenonT(30) DEF Undone, files, own, judged, GoTo, TypeOK
<1>19. CASE HandOver
  BY <1>19, Labels, ZenonT(30) DEF HandOver, files, own, judged, GoTo, TypeOK
<1>20. CASE BeginCleanup
  BY <1>20, JobNotes, Labels, ZenonT(30) DEF BeginCleanup, files, judged, TypeOK
<1>21. CASE Clean
  <2>1. exit' \in Endings \cup {"none", "killed"} /\ staging' \in {"none", "made", "known",
     "left"}
    BY <1>21, JobNotes DEF Clean, Finish, Endings, TypeOK
  <2>2. QED
    BY <1>21, <2>1, Labels, ZenonT(30) DEF Clean, files, Finish, TypeOK
<1>22. CASE PackagesFail
  <2>1. job' \in Job /\ pc' = "leaving" /\ faults' \in 0..MaxFaults /\ packages' \subseteq Package
    BY <1>22, FaultType, JobNotes, ZenonT(30) DEF PackagesFail, Leave, TypeOK, Endings
  <2>2. UNCHANGED <<target, receipt, backups, release, staging, phase, asked, exit, judged>>
    BY <1>22 DEF PackagesFail, Leave
  <2>3. QED
    BY <2>1, <2>2, Labels, ZenonT(30) DEF judged, TypeOK
<1>23. CASE StepFails
  <2>1. job' \in Job /\ pc' = "leaving" /\ faults' \in 0..MaxFaults
    BY <1>23, FaultType, JobNotes, ZenonT(30) DEF StepFails, Leave, TypeOK, Endings
  <2>2. UNCHANGED <<files, release, staging, phase, asked, exit, judged>>
    BY <1>23 DEF StepFails, Leave
  <2>3. QED
    BY <2>1, <2>2, Labels, ZenonT(30) DEF files, judged, TypeOK
<1>24. CASE ReplacementFails
  BY <1>24, FaultType, NewReceiptType, JobNotes, Labels, ZenonT(30) DEF ReplacementFails,
     judged, UndoFor, TypeOK
<1>25. CASE UndoFails
  BY <1>25, FaultType, JobNotes, Labels, ZenonT(30) DEF UndoFails, judged, Recovered, TypeOK
<1>26. CASE CleanFails
  <2>1. exit' \in Endings \cup {"none", "killed"} /\ faults' \in 0..MaxFaults
    BY <1>26, FaultType, ZenonT(30) DEF CleanFails, Finish, Endings, TypeOK
  <2>2. QED
    BY <1>26, <2>1, Labels, ZenonT(30) DEF CleanFails, files, Finish, TypeOK
<1>27. CASE SignalInside
  <2>1. job' \in Job /\ pc' \in {"leaving", "undo"} /\ phase' \in {"recovery",
     "terminating"}
    BY <1>27, JobNotes, ZenonT(30) DEF SignalInside, SignalRaised, TypeOK, Endings
  <2>2. target' \in Binary \cup {Absent}
    BY <1>27, NewReceiptType, ZenonT(30) DEF SignalInside, TypeOK
  <2>3. receipt' \in Receipts \cup {NoReceipt}
    BY <1>27, NewReceiptType, ZenonT(30) DEF SignalInside, TypeOK
  <2>4. packages' \subseteq Package
    BY <1>27, SMTT(30) DEF SignalInside, TypeOK
  <2>5. faults' \in 0..MaxFaults
    BY <1>27, FaultType DEF SignalInside, TypeOK
  <2>6. QED
    BY <1>27, <2>1, <2>2, <2>3, <2>4, <2>5, ZenonT(30) DEF SignalInside, judged, TypeOK,
       Undoing, Closing
<1>28. CASE SignalLate
  <2>1. job' \in Job /\ faults' \in 0..MaxFaults
    BY <1>28, FaultType, JobNotes, ZenonT(30) DEF SignalLate, TypeOK, Endings
  <2>2. pc' \in {"left", "idle"} /\ exit' \in {exit, "signalled"}
    BY <1>28, ZenonT(30) DEF SignalLate
  <2>3. /\ staging' \in {"none", "left"} /\ phase' = "terminating"
        /\ asked' = TRUE /\ late' = TRUE /\ sound' = FALSE
    BY <1>28, ZenonT(30) DEF SignalLate
  <2>4. UNCHANGED <<files, release, calm>>
    BY <1>28 DEF SignalLate
  <2>5. QED
    BY <2>1, <2>2, <2>3, <2>4, Labels, ZenonT(30) DEF files, Endings, TypeOK
<1>29. CASE SignalNoted
  BY <1>29, FaultType, JobNotes, ZenonT(30) DEF SignalNoted, files, judged, TypeOK
<1>30. CASE Kill
  BY <1>30, FaultType, JobNotes, Labels, ZenonT(30) DEF Kill, TypeOK
<1>31. CASE Foreign
  BY <1>31, FaultType, ZenonT(30) DEF Foreign, own, TypeOK
<1>32. CASE Update
  BY <1>32, FaultType, ZenonT(30) DEF Update, files, own, judged, TypeOK
<1>33. QED
  BY <1>1, <1>2, <1>3, <1>4, <1>5, <1>6, <1>7, <1>8, <1>9, <1>10, <1>11, <1>12, <1>13,
     <1>14, <1>15, <1>16, <1>17, <1>18, <1>19, <1>20, <1>21, <1>22, <1>23, <1>24, <1>25,
     <1>26, <1>27, <1>28, <1>29, <1>30, <1>31, <1>32 DEF Next, Run, Failures, Others

(* Every variable keeps its type, whatever fails and whenever a signal, a  *)
(* kill or another program comes.                                          *)
THEOREM TypeCorrect == Spec => []TypeOK
<1>1. TypeOK /\ UNCHANGED vars => TypeOK'
  BY DEF TypeOK, vars, files, own, judged
<1>2. QED
  BY InitTyped, NextTyped, <1>1, PTL DEF Spec

-----------------------------------------------------------------------------
(* The inductive invariant *)

Replacing == {"replacing", "probe", "record", "recorded"}
Closed == {"leaving", "left", "cleanup"}

(* What a run remembers fits the step it has come to.                      *)
Progress ==
  /\ pc # "idle" => exit = "none" /\ job.release = release
  /\ pc \in Working => job.why = "ok" /\ ~job.done /\ (job.started <=> pc \in Replacing)
  /\ pc \in Undoing \cup {"undone"} => job.started /\ ~job.done /\ job.why \notin {"ok", "noop"}
  /\ pc \in Undoing => job.why # "unproven"
  /\ pc \in Closed /\ job.why = "unproven" => job.started /\ ~job.done

BackedUp == job.existing # Absent => backups[job.existing] = "whole"

(* What the earlier steps have provided is still there.                    *)
Provided ==
  /\ pc \in Working \ {"check", "packages"} => packages = Package
  /\ pc \in {"recheck", "backup", "replace"} \cup Replacing => job.release \in Runs
  /\ pc \in {"replace"} \cup Replacing => BackedUp

(* The binary and the receipt at each step, if nobody else changed them.   *)
Tracked ==
  /\ pc \in Working \ {"probe", "record", "recorded"} => target = job.existing /\ receipt = job.receipt
  /\ pc \in {"probe", "record", "recorded"} => target = job.release
  /\ pc = "recorded" => receipt = NewReceipt
  /\ pc = "undo-receipt" => target = job.existing
  /\ pc = "undone" /\ job.why # "unproven" => target = job.existing /\ receipt = NoReceipt

(* What is known once the body of the transaction is left.                 *)
Concluded ==
  /\ job.why \in {"ok", "noop"} => packages = Package /\ target = job.release /\ target \in Runs
  /\ job.why = "ok" => receipt = NewReceipt /\ BackedUp
  /\ job.why = "noop" =>
       /\ target = job.existing /\ receipt = job.receipt /\ receipt # NoReceipt
       /\ receipt.release = job.release /\ Matches
  /\ job.why \in {"failed", "signalled"} /\ ~late =>
       \/ target = job.existing /\ receipt \in {job.receipt, NoReceipt}
       \/ target = job.release /\ receipt = NewReceipt

(* While nothing needs repair the receipt is true, except while the binary *)
(* is being replaced or put back.                                          *)
Sound ==
  /\ sound => calm /\ ~late
  /\ sound /\ pc \in {"idle"} \cup (Working \ Replacing) => Matches
  /\ sound /\ pc \in Closed /\ job.why # "unproven" => Matches

IInv ==
  /\ Progress /\ Provided
  /\ calm => Tracked
  /\ calm /\ pc \in Closed => Concluded
  /\ Sound
  /\ OldOrNew /\ InstalledIsPinned

(* The initial states satisfy the invariant.                               *)
LEMMA InitInv == Init => IInv
BY SMTT(30) DEF Init, IInv, Progress, Provided, Tracked, Concluded, Sound, OldOrNew,
   InstalledIsPinned, Matches, NewJob, Working, Undoing, Closed, Replacing, Endings

(* Progress holds at every step.                                           *)
LEMMA ProgressStep ==
  ASSUME TypeOK, TypeOK', Progress, Next
  PROVE  Progress'
<1> USE DEF Progress, Working, Undoing, Replacing, Closed
<1>1. CASE Begin
  BY <1>1, SMTT(30) DEF Begin, files, NewJob
<1>2. CASE CheckEnvironment
  BY <1>2, SMTT(30) DEF CheckEnvironment, files, judged
<1>3. CASE InstallPackages
  BY <1>3, SMTT(30) DEF InstallPackages, judged
<1>4. CASE Inspect
  <2>1. /\ pc = "inspect" /\ UNCHANGED <<exit, release>>
        /\ \/ /\ pc' = "leaving"
              /\ job' = [job EXCEPT !.existing = target, !.receipt = receipt, !.why =
                 "noop"]
           \/ /\ pc' = "staging"
              /\ job' = [job EXCEPT !.existing = target, !.receipt = receipt]
    BY <1>4, ZenonT(30) DEF Inspect
  <2>2. ASSUME job' = [job EXCEPT !.existing = target, !.receipt = receipt, !.why = "noop"]
        PROVE  /\ job'.release = job.release /\ job'.started = job.started
               /\ job'.done = job.done /\ job'.why = "noop"
               /\ job'.existing = target /\ job'.receipt = receipt
    BY <2>2 DEF TypeOK, Job
  <2>3. ASSUME job' = [job EXCEPT !.existing = target, !.receipt = receipt]
        PROVE  /\ job'.release = job.release /\ job'.started = job.started
               /\ job'.done = job.done /\ job'.why = job.why
               /\ job'.existing = target /\ job'.receipt = receipt
    BY <2>3 DEF TypeOK, Job
  <2>4. QED
    BY <2>1, <2>2, <2>3, SMTT(30)
<1>5. CASE MakeStaging
  BY <1>5, SMTT(30) DEF MakeStaging, files, own, judged, GoTo
<1>6. CASE NameStaging
  BY <1>6, SMTT(30) DEF NameStaging, files, own, judged, GoTo
<1>7. CASE Download
  BY <1>7, SMTT(30) DEF Download, files, own, judged, GoTo
<1>8. CASE Extract
  BY <1>8, SMTT(30) DEF Extract, files, own, judged, GoTo
<1>9. CASE Recheck
  <2>1. pc = "recheck" /\ UNCHANGED release /\ (GoTo("replace") \/ GoTo("backup") \/
     Leave("failed"))
    BY <1>9 DEF Recheck
  <2>2. CASE GoTo("replace")
    BY <2>1, <2>2, SMTT(30) DEF GoTo, own, TypeOK, Job
  <2>3. CASE GoTo("backup")
    BY <2>1, <2>3, SMTT(30) DEF GoTo, own, TypeOK, Job
  <2>4. CASE Leave("failed")
    BY <2>1, <2>4, SMTT(30) DEF Leave, TypeOK, Job
  <2>5. QED
    BY <2>1, <2>2, <2>3, <2>4
<1>10. CASE Backup
  <2>1. pc = "backup" /\ UNCHANGED release /\ (GoTo("replace") \/ Leave("failed"))
    BY <1>10 DEF Backup
  <2>2. CASE GoTo("replace")
    BY <2>1, <2>2, SMTT(30) DEF GoTo, own, TypeOK, Job
  <2>3. CASE Leave("failed")
    BY <2>1, <2>3, SMTT(30) DEF Leave, TypeOK, Job
  <2>4. QED
    BY <2>1, <2>2, <2>3
<1>11. CASE StartReplacement
  BY <1>11, SMTT(30) DEF StartReplacement, files, judged
<1>12. CASE Install
  BY <1>12, SMTT(30) DEF Install, own, judged, GoTo
<1>13. CASE Probe
  <2>1. pc = "probe" /\ UNCHANGED release /\ (GoTo("record") \/ UndoFor("failed"))
    BY <1>13 DEF Probe
  <2>2. CASE GoTo("record")
    BY <2>1, <2>2, SMTT(30) DEF GoTo, own, TypeOK, Job
  <2>3. CASE UndoFor("failed")
    BY <2>1, <2>3, SMTT(30) DEF UndoFor, TypeOK, Job
  <2>4. QED
    BY <2>1, <2>2, <2>3
<1>14. CASE Record
  BY <1>14, SMTT(30) DEF Record, own, judged, GoTo, NewReceipt
<1>15. CASE Recorded
  BY <1>15, SMTT(30) DEF Recorded, files, judged
<1>16. CASE Undo
  <2>1. pc = "undo" /\ UNCHANGED release /\ (GoTo("undo-receipt") \/ Recovered("unproven"))
    BY <1>16 DEF Undo
  <2>2. CASE GoTo("undo-receipt")
    BY <2>1, <2>2, SMTT(30) DEF GoTo, own, TypeOK, Job
  <2>3. CASE Recovered("unproven")
    BY <2>1, <2>3, SMTT(30) DEF Recovered, TypeOK, Job
  <2>4. QED
    BY <2>1, <2>2, <2>3
<1>17. CASE UndoReceipt
  BY <1>17, SMTT(30) DEF UndoReceipt, judged, Recovered
<1>18. CASE Undone
  BY <1>18, SMTT(30) DEF Undone, files, own, judged, GoTo
<1>19. CASE HandOver
  BY <1>19, SMTT(30) DEF HandOver, files, own, judged, GoTo
<1>20. CASE BeginCleanup
  BY <1>20, SMTT(30) DEF BeginCleanup, files, judged
<1>21. CASE Clean
  BY <1>21, SMTT(30) DEF Clean, files, Finish
<1>22. CASE PackagesFail
  BY <1>22, SMTT(30) DEF PackagesFail, judged, Fault, Leave
<1>23. CASE StepFails
  BY <1>23, SMTT(30) DEF StepFails, files, judged, Fault, Leave
<1>24. CASE ReplacementFails
  BY <1>24, SMTT(30) DEF ReplacementFails, judged, Fault, UndoFor, NewReceipt
<1>25. CASE UndoFails
  BY <1>25, SMTT(30) DEF UndoFails, judged, Fault, Recovered
<1>26. CASE CleanFails
  BY <1>26, SMTT(30) DEF CleanFails, files, Fault, Finish
<1>27. CASE SignalInside
  <2>1. /\ pc \in Working \cup {"undone"} /\ UNCHANGED <<release, exit>>
        /\ job' = [job EXCEPT !.why = "signalled"]
        /\ IF job.started /\ ~job.done THEN pc' = "undo" ELSE pc' = "leaving"
    BY <1>27, ZenonT(30) DEF SignalInside, SignalRaised
  <2>2. /\ job'.release = job.release /\ job'.started = job.started /\ job'.done = job.done
        /\ job'.why = "signalled"
    BY <2>1, SMTT(30) DEF TypeOK, Job
  <2>3. QED
    BY <2>1, <2>2, SMTT(30)
<1>28. CASE SignalLate
  BY <1>28, SMTT(30) DEF SignalLate, files, Fault
<1>29. CASE SignalNoted
  BY <1>29, SMTT(30) DEF SignalNoted, files, judged, Fault
<1>30. CASE Kill
  BY <1>30, SMTT(30) DEF Kill, Fault
<1>31. CASE Foreign
  BY <1>31, SMTT(30) DEF Foreign, own, Fault
<1>32. CASE Update
  BY <1>32, SMTT(30) DEF Update, files, own, judged, Fault
<1>33. QED
  BY <1>1, <1>2, <1>3, <1>4, <1>5, <1>6, <1>7, <1>8, <1>9, <1>10, <1>11, <1>12, <1>13,
     <1>14, <1>15, <1>16, <1>17, <1>18, <1>19, <1>20, <1>21, <1>22, <1>23, <1>24, <1>25,
     <1>26, <1>27, <1>28, <1>29, <1>30, <1>31, <1>32 DEF Next, Run, Failures, Others

(* Nothing that was provided is taken away.                                *)
LEMMA ProvidedStep ==
  ASSUME TypeOK, TypeOK', Progress, Provided, Next
  PROVE  Provided'
<1> USE DEF Progress, Provided, BackedUp, Working, Undoing, Replacing
<1>1. CASE Begin
  BY <1>1, SMTT(30) DEF Begin, files, NewJob
<1>2. CASE CheckEnvironment
  BY <1>2, SMTT(30) DEF CheckEnvironment, files, judged
<1>3. CASE InstallPackages
  BY <1>3, SMTT(30) DEF InstallPackages, judged
<1>4. CASE Inspect
  BY <1>4, SMTT(30) DEF Inspect, files, judged, NothingToDo
<1>5. CASE MakeStaging
  BY <1>5, SMTT(30) DEF MakeStaging, files, own, judged, GoTo
<1>6. CASE NameStaging
  BY <1>6, SMTT(30) DEF NameStaging, files, own, judged, GoTo
<1>7. CASE Download
  BY <1>7, SMTT(30) DEF Download, files, own, judged, GoTo
<1>8. CASE Extract
  BY <1>8, SMTT(30) DEF Extract, files, own, judged, GoTo
<1>9. CASE Recheck
  BY <1>9, SMTT(30) DEF Recheck, files, own, judged, GoTo, Leave
<1>10. CASE Backup
  <2>1. /\ pc = "backup" /\ UNCHANGED <<target, receipt, packages, release, judged>>
        /\ \/ Leave("failed") /\ UNCHANGED backups
           \/ backups' = [backups EXCEPT ![job.existing] = "whole"] /\ GoTo("replace")
    BY <1>10 DEF Backup
  <2>2. CASE Leave("failed")
    BY <2>1, <2>2, SMTT(30) DEF Leave
  <2>3. CASE backups' = [backups EXCEPT ![job.existing] = "whole"] /\ GoTo("replace")
    BY <2>1, <2>3, SMTT(30) DEF GoTo, own, TypeOK, Job
  <2>4. QED
    BY <2>1, <2>2, <2>3
<1>11. CASE StartReplacement
  BY <1>11, SMTT(30) DEF StartReplacement, files, judged
<1>12. CASE Install
  BY <1>12, SMTT(30) DEF Install, own, judged, GoTo
<1>13. CASE Probe
  BY <1>13, SMTT(30) DEF Probe, files, own, judged, GoTo, UndoFor
<1>14. CASE Record
  BY <1>14, SMTT(30) DEF Record, own, judged, GoTo, NewReceipt
<1>15. CASE Recorded
  BY <1>15, SMTT(30) DEF Recorded, files, judged
<1>16. CASE Undo
  BY <1>16, SMTT(30) DEF Undo, own, judged, GoTo, Recovered
<1>17. CASE UndoReceipt
  BY <1>17, SMTT(30) DEF UndoReceipt, judged, Recovered
<1>18. CASE Undone
  BY <1>18, SMTT(30) DEF Undone, files, own, judged, GoTo
<1>19. CASE HandOver
  BY <1>19, SMTT(30) DEF HandOver, files, own, judged, GoTo
<1>20. CASE BeginCleanup
  BY <1>20, SMTT(30) DEF BeginCleanup, files, judged
<1>21. CASE Clean
  BY <1>21, SMTT(30) DEF Clean, files, Finish
<1>22. CASE PackagesFail
  BY <1>22, SMTT(30) DEF PackagesFail, judged, Fault, Leave
<1>23. CASE StepFails
  BY <1>23, SMTT(30) DEF StepFails, files, judged, Fault, Leave
<1>24. CASE ReplacementFails
  BY <1>24, SMTT(30) DEF ReplacementFails, judged, Fault, UndoFor, NewReceipt
<1>25. CASE UndoFails
  BY <1>25, SMTT(30) DEF UndoFails, judged, Fault, Recovered
<1>26. CASE CleanFails
  BY <1>26, SMTT(30) DEF CleanFails, files, Fault, Finish
<1>27. CASE SignalInside
  BY <1>27, SMTT(30) DEF SignalInside, judged, Fault, NewReceipt, SignalRaised
<1>28. CASE SignalLate
  BY <1>28, SMTT(30) DEF SignalLate, files, Fault
<1>29. CASE SignalNoted
  BY <1>29, SMTT(30) DEF SignalNoted, files, judged, Fault
<1>30. CASE Kill
  BY <1>30, SMTT(30) DEF Kill, Fault
<1>31. CASE Foreign
  BY <1>31, SMTT(30) DEF Foreign, own, Fault
<1>32. CASE Update
  BY <1>32, SMTT(30) DEF Update, files, own, judged, Fault
<1>33. QED
  BY <1>1, <1>2, <1>3, <1>4, <1>5, <1>6, <1>7, <1>8, <1>9, <1>10, <1>11, <1>12, <1>13,
     <1>14, <1>15, <1>16, <1>17, <1>18, <1>19, <1>20, <1>21, <1>22, <1>23, <1>24, <1>25,
     <1>26, <1>27, <1>28, <1>29, <1>30, <1>31, <1>32 DEF Next, Run, Failures, Others

(* The binary and the receipt are followed through every step.             *)
LEMMA TrackedStep ==
  ASSUME TypeOK, TypeOK', Progress, calm => Tracked, Next, calm'
  PROVE  Tracked'
<1> USE DEF Progress, Tracked, Working, Undoing, Replacing, NewReceipt
<1>1. CASE Begin
  BY <1>1, SMTT(30) DEF Begin, files, NewJob
<1>2. CASE CheckEnvironment
  BY <1>2, SMTT(30) DEF CheckEnvironment, files, judged
<1>3. CASE InstallPackages
  BY <1>3, SMTT(30) DEF InstallPackages, judged
<1>4. CASE Inspect
  <2>1. /\ pc = "inspect" /\ UNCHANGED <<target, receipt, backups, packages, release>>
        /\ UNCHANGED <<calm, late, sound>>
        /\ \/ /\ pc' = "leaving" /\ NothingToDo
              /\ job' = [job EXCEPT !.existing = target, !.receipt = receipt, !.why =
                 "noop"]
           \/ /\ pc' = "staging"
              /\ job' = [job EXCEPT !.existing = target, !.receipt = receipt]
    BY <1>4, ZenonT(30) DEF Inspect, files, judged
  <2>2. ASSUME job' = [job EXCEPT !.existing = target, !.receipt = receipt, !.why = "noop"]
        PROVE  /\ job'.release = job.release /\ job'.started = job.started
               /\ job'.done = job.done /\ job'.why = "noop"
               /\ job'.existing = target /\ job'.receipt = receipt
    BY <2>2 DEF TypeOK, Job
  <2>3. ASSUME job' = [job EXCEPT !.existing = target, !.receipt = receipt]
        PROVE  /\ job'.release = job.release /\ job'.started = job.started
               /\ job'.done = job.done /\ job'.why = job.why
               /\ job'.existing = target /\ job'.receipt = receipt
    BY <2>3 DEF TypeOK, Job
  <2>4. QED
    BY <2>1, <2>2, <2>3, SMTT(30)
<1>5. CASE MakeStaging
  BY <1>5, SMTT(30) DEF MakeStaging, files, own, judged, GoTo
<1>6. CASE NameStaging
  BY <1>6, SMTT(30) DEF NameStaging, files, own, judged, GoTo
<1>7. CASE Download
  BY <1>7, SMTT(30) DEF Download, files, own, judged, GoTo
<1>8. CASE Extract
  BY <1>8, SMTT(30) DEF Extract, files, own, judged, GoTo
<1>9. CASE Recheck
  BY <1>9, SMTT(30) DEF Recheck, files, own, judged, GoTo, Leave
<1>10. CASE Backup
  BY <1>10, SMTT(30) DEF Backup, own, judged, GoTo, Leave
<1>11. CASE StartReplacement
  BY <1>11, SMTT(30) DEF StartReplacement, files, judged
<1>12. CASE Install
  BY <1>12, SMTT(30) DEF Install, own, judged, GoTo
<1>13. CASE Probe
  BY <1>13, SMTT(30) DEF Probe, files, own, judged, GoTo, UndoFor
<1>14. CASE Record
  BY <1>14, SMTT(30) DEF Record, own, judged, GoTo
<1>15. CASE Recorded
  BY <1>15, SMTT(30) DEF Recorded, files, judged
<1>16. CASE Undo
  <2>1. /\ pc = "undo" /\ target' = job.existing /\ UNCHANGED <<receipt, calm>>
        /\ (GoTo("undo-receipt") \/ Recovered("unproven"))
    BY <1>16 DEF Undo, judged
  <2>2. CASE GoTo("undo-receipt")
    BY <2>1, <2>2, SMTT(30) DEF GoTo, own
  <2>3. CASE Recovered("unproven")
    BY <2>1, <2>3, SMTT(30) DEF Recovered, TypeOK, Job
  <2>4. QED
    BY <2>1, <2>2, <2>3
<1>17. CASE UndoReceipt
  BY <1>17, SMTT(30) DEF UndoReceipt, judged, Recovered
<1>18. CASE Undone
  BY <1>18, SMTT(30) DEF Undone, files, own, judged, GoTo
<1>19. CASE HandOver
  BY <1>19, SMTT(30) DEF HandOver, files, own, judged, GoTo
<1>20. CASE BeginCleanup
  BY <1>20, SMTT(30) DEF BeginCleanup, files, judged
<1>21. CASE Clean
  BY <1>21, SMTT(30) DEF Clean, files, Finish
<1>22. CASE PackagesFail
  BY <1>22, SMTT(30) DEF PackagesFail, judged, Fault, Leave
<1>23. CASE StepFails
  BY <1>23, SMTT(30) DEF StepFails, files, judged, Fault, Leave
<1>24. CASE ReplacementFails
  BY <1>24, SMTT(30) DEF ReplacementFails, judged, Fault, UndoFor
<1>25. CASE UndoFails
  BY <1>25, SMTT(30) DEF UndoFails, judged, Fault, Recovered
<1>26. CASE CleanFails
  BY <1>26, SMTT(30) DEF CleanFails, files, Fault, Finish
<1>27. CASE SignalInside
  BY <1>27, SMTT(30) DEF SignalInside, judged, Fault, SignalRaised
<1>28. CASE SignalLate
  BY <1>28, SMTT(30) DEF SignalLate, files, Fault
<1>29. CASE SignalNoted
  BY <1>29, SMTT(30) DEF SignalNoted, files, judged, Fault
<1>30. CASE Kill
  BY <1>30, SMTT(30) DEF Kill, Fault
<1>31. CASE Foreign
  BY <1>31, SMTT(30) DEF Foreign, own, Fault
<1>32. CASE Update
  BY <1>32, SMTT(30) DEF Update, files, own, judged, Fault
<1>33. QED
  BY <1>1, <1>2, <1>3, <1>4, <1>5, <1>6, <1>7, <1>8, <1>9, <1>10, <1>11, <1>12, <1>13,
     <1>14, <1>15, <1>16, <1>17, <1>18, <1>19, <1>20, <1>21, <1>22, <1>23, <1>24, <1>25,
     <1>26, <1>27, <1>28, <1>29, <1>30, <1>31, <1>32 DEF Next, Run, Failures, Others

(* The body is left with one of the conclusions.                           *)
LEMMA ConcludedStep ==
  ASSUME TypeOK, TypeOK', Progress, Provided, calm => Tracked, calm /\ pc \in Closed =>
     Concluded,
         Next, calm', pc' \in Closed
  PROVE  Concluded'
<1> USE DEF Progress, Provided, Tracked, Concluded, BackedUp, Matches, Working, Undoing,
   Replacing,
       Closed, NewReceipt
<1>1. CASE Begin
  BY <1>1, SMTT(30) DEF Begin, files, NewJob
<1>2. CASE CheckEnvironment
  BY <1>2, SMTT(30) DEF CheckEnvironment, files, judged
<1>3. CASE InstallPackages
  BY <1>3, SMTT(30) DEF InstallPackages, judged
<1>4. CASE Inspect
  <2>1. /\ pc = "inspect" /\ UNCHANGED <<target, receipt, backups, packages, release>>
        /\ UNCHANGED <<calm, late, sound>>
        /\ \/ /\ pc' = "leaving" /\ NothingToDo
              /\ job' = [job EXCEPT !.existing = target, !.receipt = receipt, !.why =
                 "noop"]
           \/ /\ pc' = "staging"
              /\ job' = [job EXCEPT !.existing = target, !.receipt = receipt]
    BY <1>4, ZenonT(30) DEF Inspect, files, judged
  <2>2. ASSUME job' = [job EXCEPT !.existing = target, !.receipt = receipt, !.why = "noop"]
        PROVE  /\ job'.release = job.release /\ job'.started = job.started
               /\ job'.done = job.done /\ job'.why = "noop"
               /\ job'.existing = target /\ job'.receipt = receipt
    BY <2>2 DEF TypeOK, Job
  <2>3. ASSUME job' = [job EXCEPT !.existing = target, !.receipt = receipt]
        PROVE  /\ job'.release = job.release /\ job'.started = job.started
               /\ job'.done = job.done /\ job'.why = job.why
               /\ job'.existing = target /\ job'.receipt = receipt
    BY <2>3 DEF TypeOK, Job
  <2>4. NothingToDo => /\ receipt # NoReceipt /\ receipt.release = release /\ Matches
                       /\ target = release /\ target \in Runs
    BY BootstrapAssumption DEF NothingToDo
  <2>5. QED
    BY <2>1, <2>2, <2>4, SMTT(30)
<1>5. CASE MakeStaging
  BY <1>5, SMTT(30) DEF MakeStaging, files, own, judged, GoTo
<1>6. CASE NameStaging
  BY <1>6, SMTT(30) DEF NameStaging, files, own, judged, GoTo
<1>7. CASE Download
  BY <1>7, SMTT(30) DEF Download, files, own, judged, GoTo
<1>8. CASE Extract
  BY <1>8, SMTT(30) DEF Extract, files, own, judged, GoTo
<1>9. CASE Recheck
  BY <1>9, SMTT(30) DEF Recheck, files, own, judged, GoTo, Leave
<1>10. CASE Backup
  <2>1. /\ pc = "backup" /\ UNCHANGED <<target, receipt, packages, release, judged>>
        /\ \/ Leave("failed") /\ UNCHANGED backups
           \/ backups' = [backups EXCEPT ![job.existing] = "whole"] /\ GoTo("replace")
    BY <1>10 DEF Backup
  <2>2. Leave("failed") /\ UNCHANGED backups
    BY <2>1 DEF GoTo
  <2>3. job'.existing = job.existing /\ job'.receipt = job.receipt /\ job'.why = "failed"
    BY <2>2 DEF Leave, TypeOK, Job
  <2>4. QED
    BY <2>1, <2>2, <2>3, SMTT(30) DEF judged
<1>11. CASE StartReplacement
  BY <1>11, SMTT(30) DEF StartReplacement, files, judged
<1>12. CASE Install
  BY <1>12, SMTT(30) DEF Install, own, judged, GoTo
<1>13. CASE Probe
  BY <1>13, SMTT(30) DEF Probe, files, own, judged, GoTo, UndoFor
<1>14. CASE Record
  BY <1>14, SMTT(30) DEF Record, own, judged, GoTo
<1>15. CASE Recorded
  BY <1>15, SMTT(30) DEF Recorded, files, judged
<1>16. CASE Undo
  BY <1>16, SMTT(30) DEF Undo, own, judged, GoTo, Recovered
<1>17. CASE UndoReceipt
  BY <1>17, SMTT(30) DEF UndoReceipt, judged, Recovered
<1>18. CASE Undone
  BY <1>18, SMTT(30) DEF Undone, files, own, judged, GoTo
<1>19. CASE HandOver
  BY <1>19, SMTT(30) DEF HandOver, files, own, judged, GoTo
<1>20. CASE BeginCleanup
  BY <1>20, SMTT(30) DEF BeginCleanup, files, judged
<1>21. CASE Clean
  BY <1>21, SMTT(30) DEF Clean, files, Finish
<1>22. CASE PackagesFail
  BY <1>22, SMTT(30) DEF PackagesFail, judged, Fault, Leave
<1>23. CASE StepFails
  BY <1>23, SMTT(30) DEF StepFails, files, judged, Fault, Leave
<1>24. CASE ReplacementFails
  BY <1>24, SMTT(30) DEF ReplacementFails, judged, Fault, UndoFor
<1>25. CASE UndoFails
  BY <1>25, SMTT(30) DEF UndoFails, judged, Fault, Recovered
<1>26. CASE CleanFails
  BY <1>26, SMTT(30) DEF CleanFails, files, Fault, Finish
<1>27. CASE SignalInside
  <2>1. /\ pc \in Working \cup {"undone"} /\ ~(job.started /\ ~job.done) /\ pc' = "leaving"
        /\ job' = [job EXCEPT !.why = "signalled"]
    BY <1>27, ZenonT(30) DEF SignalInside, SignalRaised
  <2>2. pc \in Working /\ pc \notin Replacing
    BY <2>1, SMTT(30)
  <2>3. UNCHANGED <<target, receipt, calm>>
    BY <1>27, <2>2, ZenonT(30) DEF SignalInside, judged
  <2>4. /\ job'.existing = job.existing /\ job'.receipt = job.receipt
        /\ job'.why = "signalled"
    BY <2>1 DEF TypeOK, Job
  <2>5. QED
    BY <2>2, <2>3, <2>4, SMTT(30)
<1>28. CASE SignalLate
  BY <1>28, SMTT(30) DEF SignalLate, files, Fault
<1>29. CASE SignalNoted
  BY <1>29, SMTT(30) DEF SignalNoted, files, judged, Fault
<1>30. CASE Kill
  BY <1>30, SMTT(30) DEF Kill, Fault
<1>31. CASE Foreign
  BY <1>31, SMTT(30) DEF Foreign, own, Fault
<1>32. CASE Update
  BY <1>32, SMTT(30) DEF Update, files, own, judged, Fault
<1>33. QED
  BY <1>1, <1>2, <1>3, <1>4, <1>5, <1>6, <1>7, <1>8, <1>9, <1>10, <1>11, <1>12, <1>13,
     <1>14, <1>15, <1>16, <1>17, <1>18, <1>19, <1>20, <1>21, <1>22, <1>23, <1>24, <1>25,
     <1>26, <1>27, <1>28, <1>29, <1>30, <1>31, <1>32 DEF Next, Run, Failures, Others

(* What needs repair is noted.                                             *)
LEMMA SoundStep ==
  ASSUME TypeOK, TypeOK', IInv, Next
  PROVE  Sound'
<1> USE DEF IInv, Progress, Provided, Tracked, Concluded, Sound, BackedUp, Matches,
   Working, Undoing,
       Replacing, Closed, NewReceipt
<1>1. CASE Begin
  BY <1>1, SMTT(30) DEF Begin, files, NewJob
<1>2. CASE CheckEnvironment
  BY <1>2, SMTT(30) DEF CheckEnvironment, files, judged
<1>3. CASE InstallPackages
  BY <1>3, SMTT(30) DEF InstallPackages, judged
<1>4. CASE Inspect
  BY <1>4, SMTT(30) DEF Inspect, files, judged, NothingToDo
<1>5. CASE MakeStaging
  BY <1>5, SMTT(30) DEF MakeStaging, files, own, judged, GoTo
<1>6. CASE NameStaging
  BY <1>6, SMTT(30) DEF NameStaging, files, own, judged, GoTo
<1>7. CASE Download
  BY <1>7, SMTT(30) DEF Download, files, own, judged, GoTo
<1>8. CASE Extract
  BY <1>8, SMTT(30) DEF Extract, files, own, judged, GoTo
<1>9. CASE Recheck
  BY <1>9, SMTT(30) DEF Recheck, files, own, judged, GoTo, Leave
<1>10. CASE Backup
  <2>1. /\ pc = "backup" /\ UNCHANGED <<target, receipt, packages, release, judged>>
        /\ \/ Leave("failed") /\ UNCHANGED backups
           \/ backups' = [backups EXCEPT ![job.existing] = "whole"] /\ GoTo("replace")
    BY <1>10 DEF Backup
  <2>2. CASE Leave("failed")
    BY <2>1, <2>2, SMTT(30) DEF Leave, GoTo, judged
  <2>3. CASE backups' = [backups EXCEPT ![job.existing] = "whole"] /\ GoTo("replace")
    <3>1. \A b \in Binary : backups[b] = "whole" => backups'[b] = "whole"
      BY <2>3, SMTT(30) DEF TypeOK
    <3>2. receipt # NoReceipt => receipt.backup \in Binary \cup {Absent}
      BY DEF TypeOK, Receipts
    <3>3. Matches => Matches'
      BY <2>1, <3>1, <3>2, SMTT(30)
    <3>4. QED
      BY <2>1, <2>3, <3>3, SMTT(30) DEF GoTo, judged
  <2>4. QED
    BY <2>1, <2>2, <2>3
<1>11. CASE StartReplacement
  BY <1>11, SMTT(30) DEF StartReplacement, files, judged
<1>12. CASE Install
  BY <1>12, SMTT(30) DEF Install, own, judged, GoTo
<1>13. CASE Probe
  BY <1>13, SMTT(30) DEF Probe, files, own, judged, GoTo, UndoFor
<1>14. CASE Record
  BY <1>14, SMTT(30) DEF Record, own, judged, GoTo
<1>15. CASE Recorded
  BY <1>15, SMTT(30) DEF Recorded, files, judged
<1>16. CASE Undo
  BY <1>16, SMTT(30) DEF Undo, own, judged, GoTo, Recovered
<1>17. CASE UndoReceipt
  BY <1>17, SMTT(30) DEF UndoReceipt, judged, Recovered
<1>18. CASE Undone
  BY <1>18, SMTT(30) DEF Undone, files, own, judged, GoTo
<1>19. CASE HandOver
  BY <1>19, SMTT(30) DEF HandOver, files, own, judged, GoTo
<1>20. CASE BeginCleanup
  BY <1>20, SMTT(30) DEF BeginCleanup, files, judged
<1>21. CASE Clean
  <2>1. /\ pc = "cleanup" /\ pc' = "idle" /\ UNCHANGED <<files, calm, late>>
        /\ \E status : /\ sound' = (status # "unproven" /\ ~late
                                      /\ (sound \/ (calm /\ status \in {"ok", "noop"})))
                       /\ (job.why = "unproven" => status = "unproven")
                       /\ (status \in {"ok", "noop"} => status = job.why)
    BY <1>21, ZenonT(30) DEF Clean, Finish
  <2>2. sound' => ~late /\ (sound \/ calm) /\ job.why # "unproven"
                  /\ (sound \/ job.why \in {"ok", "noop"})
    BY <2>1
  <2>3. Matches' = Matches
    BY <2>1 DEF files
  <2>4. calm /\ job.why = "ok" => Matches
    BY <2>1, SMTT(30) DEF TypeOK, Job
  <2>5. QED
    BY <2>1, <2>2, <2>3, <2>4, SMTT(30)
<1>22. CASE PackagesFail
  BY <1>22, SMTT(30) DEF PackagesFail, judged, Fault, Leave
<1>23. CASE StepFails
  BY <1>23, SMTT(30) DEF StepFails, files, judged, Fault, Leave
<1>24. CASE ReplacementFails
  BY <1>24, SMTT(30) DEF ReplacementFails, judged, Fault, UndoFor
<1>25. CASE UndoFails
  BY <1>25, SMTT(30) DEF UndoFails, judged, Fault, Recovered
<1>26. CASE CleanFails
  <2>1. /\ pc = "cleanup" /\ pc' = "idle" /\ UNCHANGED <<files, calm, late>>
        /\ \E status : /\ sound' = (status # "unproven" /\ ~late
                                      /\ (sound \/ (calm /\ status \in {"ok", "noop"})))
                       /\ (job.why = "unproven" => status = "unproven")
                       /\ (status \in {"ok", "noop"} => status = job.why)
    BY <1>26, ZenonT(30) DEF CleanFails, Finish
  <2>2. sound' => ~late /\ (sound \/ calm) /\ job.why # "unproven"
                  /\ (sound \/ job.why \in {"ok", "noop"})
    BY <2>1
  <2>3. Matches' = Matches
    BY <2>1 DEF files
  <2>4. calm /\ job.why = "ok" => Matches
    BY <2>1, SMTT(30) DEF TypeOK, Job
  <2>5. QED
    BY <2>1, <2>2, <2>3, <2>4, SMTT(30)
<1>27. CASE SignalInside
  BY <1>27, SMTT(30) DEF SignalInside, judged, Fault, SignalRaised
<1>28. CASE SignalLate
  BY <1>28, SMTT(30) DEF SignalLate, files, Fault
<1>29. CASE SignalNoted
  BY <1>29, SMTT(30) DEF SignalNoted, files, judged, Fault
<1>30. CASE Kill
  <2>1. /\ pc # "idle" /\ pc' = "idle" /\ UNCHANGED <<target, receipt, job, calm, late>>
        /\ sound' = (sound /\ (job.started => job.done))
        /\ pc # "backup" => UNCHANGED backups
        /\ pc = "backup" => backups' = backups \/ backups[job.existing] = "none"
    BY <1>30, ZenonT(30) DEF Kill
  <2>2. sound' => sound /\ Matches
    BY <2>1, SMTT(30) DEF TypeOK, Closing
  <2>3. Matches => Matches'
    <3>1. \A b \in Binary : backups[b] = "whole" => backups'[b] = "whole"
      BY <1>30, SMTT(30) DEF Kill, TypeOK
    <3>2. receipt # NoReceipt => receipt.backup \in Binary \cup {Absent}
      BY DEF TypeOK, Receipts
    <3>3. QED
      BY <2>1, <3>1, <3>2, SMTT(30)
  <2>4. QED
    BY <2>1, <2>2, <2>3, SMTT(30)
<1>31. CASE Foreign
  BY <1>31, SMTT(30) DEF Foreign, own, Fault
<1>32. CASE Update
  BY <1>32, SMTT(30) DEF Update, files, own, judged, Fault
<1>33. QED
  BY <1>1, <1>2, <1>3, <1>4, <1>5, <1>6, <1>7, <1>8, <1>9, <1>10, <1>11, <1>12, <1>13,
     <1>14, <1>15, <1>16, <1>17, <1>18, <1>19, <1>20, <1>21, <1>22, <1>23, <1>24, <1>25,
     <1>26, <1>27, <1>28, <1>29, <1>30, <1>31, <1>32 DEF Next, Run, Failures, Others

(* The exit codes say what the run has left.                               *)
LEMMA EndStep ==
  ASSUME TypeOK, TypeOK', IInv, Next
  PROVE  OldOrNew' /\ InstalledIsPinned'
<1> USE DEF IInv, Progress, Concluded, OldOrNew, InstalledIsPinned, Working, Undoing,
   Closed, NewReceipt
<1>1. CASE Begin
  BY <1>1, SMTT(30) DEF Begin, files, NewJob
<1>2. CASE CheckEnvironment
  BY <1>2, SMTT(30) DEF CheckEnvironment, files, judged
<1>3. CASE InstallPackages
  BY <1>3, SMTT(30) DEF InstallPackages, judged
<1>4. CASE Inspect
  BY <1>4, SMTT(30) DEF Inspect, files, judged, NothingToDo
<1>5. CASE MakeStaging
  BY <1>5, SMTT(30) DEF MakeStaging, files, own, judged, GoTo
<1>6. CASE NameStaging
  BY <1>6, SMTT(30) DEF NameStaging, files, own, judged, GoTo
<1>7. CASE Download
  BY <1>7, SMTT(30) DEF Download, files, own, judged, GoTo
<1>8. CASE Extract
  BY <1>8, SMTT(30) DEF Extract, files, own, judged, GoTo
<1>9. CASE Recheck
  BY <1>9, SMTT(30) DEF Recheck, files, own, judged, GoTo, Leave
<1>10. CASE Backup
  BY <1>10, SMTT(30) DEF Backup, own, judged, GoTo, Leave
<1>11. CASE StartReplacement
  BY <1>11, SMTT(30) DEF StartReplacement, files, judged
<1>12. CASE Install
  BY <1>12, SMTT(30) DEF Install, own, judged, GoTo
<1>13. CASE Probe
  BY <1>13, SMTT(30) DEF Probe, files, own, judged, GoTo, UndoFor
<1>14. CASE Record
  BY <1>14, SMTT(30) DEF Record, own, judged, GoTo
<1>15. CASE Recorded
  BY <1>15, SMTT(30) DEF Recorded, files, judged
<1>16. CASE Undo
  BY <1>16, SMTT(30) DEF Undo, own, judged, GoTo, Recovered
<1>17. CASE UndoReceipt
  BY <1>17, SMTT(30) DEF UndoReceipt, judged, Recovered
<1>18. CASE Undone
  BY <1>18, SMTT(30) DEF Undone, files, own, judged, GoTo
<1>19. CASE HandOver
  BY <1>19, SMTT(30) DEF HandOver, files, own, judged, GoTo
<1>20. CASE BeginCleanup
  BY <1>20, SMTT(30) DEF BeginCleanup, files, judged
<1>21. CASE Clean
  <2>1. /\ pc = "cleanup" /\ UNCHANGED <<files, job, calm, late>>
        /\ exit' \in {"ok", "noop"} => exit' = job.why
        /\ exit' \in {"failed", "signalled"} => job.why # "unproven"
    BY <1>21, ZenonT(30) DEF Clean, Finish
  <2>2. job.why \in {"ok", "noop", "failed", "signalled", "unproven"}
    BY DEF TypeOK, Job, Endings
  <2>3. NewReceipt # NoReceipt
    BY NewReceiptType, BootstrapAssumption DEF TypeOK
  <2>4. QED
    BY <2>1, <2>2, <2>3, SMTT(30) DEF files
<1>22. CASE PackagesFail
  BY <1>22, SMTT(30) DEF PackagesFail, judged, Fault, Leave
<1>23. CASE StepFails
  BY <1>23, SMTT(30) DEF StepFails, files, judged, Fault, Leave
<1>24. CASE ReplacementFails
  BY <1>24, SMTT(30) DEF ReplacementFails, judged, Fault, UndoFor
<1>25. CASE UndoFails
  BY <1>25, SMTT(30) DEF UndoFails, judged, Fault, Recovered
<1>26. CASE CleanFails
  <2>1. /\ pc = "cleanup" /\ UNCHANGED <<files, job, calm, late>>
        /\ exit' \in {"ok", "noop"} => exit' = job.why
        /\ exit' \in {"failed", "signalled"} => job.why # "unproven"
    BY <1>26, ZenonT(30) DEF CleanFails, Finish
  <2>2. job.why \in {"ok", "noop", "failed", "signalled", "unproven"}
    BY DEF TypeOK, Job, Endings
  <2>3. NewReceipt # NoReceipt
    BY NewReceiptType, BootstrapAssumption DEF TypeOK
  <2>4. QED
    BY <2>1, <2>2, <2>3, SMTT(30) DEF files
<1>27. CASE SignalInside
  BY <1>27, SMTT(30) DEF SignalInside, judged, Fault, SignalRaised
<1>28. CASE SignalLate
  BY <1>28, SMTT(30) DEF SignalLate, files, Fault
<1>29. CASE SignalNoted
  BY <1>29, SMTT(30) DEF SignalNoted, files, judged, Fault
<1>30. CASE Kill
  BY <1>30, SMTT(30) DEF Kill, Fault
<1>31. CASE Foreign
  BY <1>31, SMTT(30) DEF Foreign, own, Fault
<1>32. CASE Update
  BY <1>32, SMTT(30) DEF Update, files, own, judged, Fault
<1>33. QED
  BY <1>1, <1>2, <1>3, <1>4, <1>5, <1>6, <1>7, <1>8, <1>9, <1>10, <1>11, <1>12, <1>13,
     <1>14, <1>15, <1>16, <1>17, <1>18, <1>19, <1>20, <1>21, <1>22, <1>23, <1>24, <1>25,
     <1>26, <1>27, <1>28, <1>29, <1>30, <1>31, <1>32 DEF Next, Run, Failures, Others

(* Every step of a run and of its surroundings keeps the invariant.        *)
LEMMA NextInv == TypeOK /\ TypeOK' /\ IInv /\ Next => IInv'
<1> SUFFICES ASSUME TypeOK, TypeOK', IInv, Next
             PROVE  IInv'
  OBVIOUS
<1>1. Progress /\ Provided /\ (calm => Tracked) /\ (calm /\ pc \in Closed => Concluded)
  BY DEF IInv
<1>2. (calm /\ pc \in Closed => Concluded)'
  BY <1>1, ConcludedStep
<1>3. (calm => Tracked)'
  BY <1>1, TrackedStep
<1>4. QED
  BY <1>1, <1>2, <1>3, ProgressStep, ProvidedStep, SoundStep, EndStep DEF IInv

(* The invariant holds in every state.                                     *)
LEMMA Invariant == Spec => []IInv
<1>1. IInv /\ UNCHANGED vars => IInv'
  BY SMTT(30) DEF IInv, vars, files, own, judged, Progress, Provided, Tracked, Concluded, Sound,
     OldOrNew, InstalledIsPinned, Matches, BackedUp, NewReceipt
<1>2. QED
  BY TypeCorrect, InitInv, NextInv, <1>1, PTL DEF Spec

-----------------------------------------------------------------------------
(* Results *)

(* A run that fails or is signalled inside the transaction has left the    *)
(* binary it found, or the pinned release with its receipt.                *)
THEOREM NeverHalf == Spec => []OldOrNew
<1>1. IInv => OldOrNew
  BY DEF IInv
<1>2. QED
  BY Invariant, <1>1, PTL

(* Success is claimed only for the pinned release that runs, with its      *)
(* receipt and every package.                                              *)
THEOREM SuccessIsPinned == Spec => []InstalledIsPinned
<1>1. IInv => InstalledIsPinned
  BY DEF IInv
<1>2. QED
  BY Invariant, <1>1, PTL

(* Between runs a receipt is true, until a kill in the middle of a         *)
(* replacement, an unproven recovery or a foreign change.                  *)
THEOREM ReceiptHolds == Spec => []ReceiptIsTrue
<1>1. IInv => ReceiptIsTrue
  BY DEF IInv, Sound, ReceiptIsTrue
<1>2. QED
  BY Invariant, <1>1, PTL

=============================================================================
