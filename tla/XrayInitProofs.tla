--------------------------- MODULE XrayInitProofs ---------------------------
(***************************************************************************)
(* Proofs about XrayInit, for any number of invocations, pids and faults:  *)
(* one holder of the lock, no process of someone else killed where a pid   *)
(* is checked, no second Xray and no Xray without a pid file or a parent   *)
(* that the script has not lost in one of the ways the module names.       *)
(***************************************************************************)
EXTENDS XrayInit, TLAPS

-----------------------------------------------------------------------------
(* The inductive invariant *)

(* Labels before a child is recorded, before the lock is owned, and those  *)
(* of an invocation that has a child to look after.                        *)
Early == {"new", "lock", "own", "owned", "inspect", "stop", "kill", "unpid", "start", "spawned",
          "unrecorded", "status", "unlink"}

Unlocked == {"new", "lock", "own", "owned", "inspect", "status", "unlink"}

Tending == {"spawned", "unrecorded", "publish", "sleep", "unpublish", "failed"}

(* What the place of an invocation says about its variables.               *)
Phases ==
  \A c \in Caller :
    /\ caller[c].pc \in Unlocked => ~caller[c].owned /\ caller[c].rc = "none"
    /\ caller[c].pc \in Inside \ {"owned"} => caller[c].owned
    /\ caller[c].pc \in Early => ~caller[c].active
    /\ caller[c].pc \in {"publish", "sleep", "failed", "unpublish"} => caller[c].active
    /\ caller[c].pc \in Tending \cup {"start"} => caller[c].op # "stop"
    /\ At(c, "new") => lock # c
    /\ At(c, "status") => caller[c].op = "status"

(* Whoever is between mkdir and rmdir made the directory that is there,    *)
(* and so did the owner that it names.                                     *)
Holding ==
  /\ \A c \in Caller : /\ caller[c].pc \in Inside \cup {"own", "rmdir"} => lock = c
                       /\ caller[c].pc \in {"own", "rmdir"} => owner = Nobody
  /\ owner # Nobody => lock = owner

(* An epoch that an invocation remembers is in the past of its pid, and    *)
(* was never someone else's.                                               *)
Genuine ==
  \A c \in Caller :
    LET e == caller[c].target IN
      e # NoProcess => /\ e[2] <= start[e[1]]
                       /\ start[e[1]] = e[2] => proc[e[1]] # "other"

(* The parent of a child that is not lost has the lock, and no other Xray  *)
(* is there.                                                               *)
Children ==
  \A c \in Caller :
    LET e == caller[c].target IN
      Parent(c) /\ e \in Managed \ loose =>
        /\ caller[c].pc \in Tending \cup {"cleanup"}
        /\ lock = c
        /\ Managed \ loose = {e}

(* A shell on its way to Xray has its parent, or a dead parent's lock.     *)
Forks ==
  \A e \in Managed \ loose :
    proc[e[1]] = "fork" => \/ \E c \in Caller : Parent(c) /\ caller[c].target = e
                           \/ lock # Nobody /\ ~Alive(lock)

(* While a stop kills and while a start tends its child, that is all there *)
(* is, and the pid file names nothing else; when the stop has killed,      *)
(* nothing is.                                                             *)
Stops ==
  \A c \in Caller :
    /\ caller[c].pc \in Tending \cup {"kill"} => Managed \ loose \subseteq {caller[c].target}
    /\ At(c, "unpid") => Managed \subseteq loose
    /\ caller[c].pc \in {"spawned", "unrecorded", "publish"} => pidfile = Nobody
    /\ At(c, "sleep") => pidfile \in {Nobody, caller[c].target[1]}

Basis == TypeOK /\ Phases /\ Holding /\ Genuine /\ FreedLock /\ NoForeignKill

IInv == Basis /\ Children /\ Forks /\ NoOrphan /\ Stops /\ StoppedMeansNone

-----------------------------------------------------------------------------
(* Types *)

(* The record of an invocation.                                            *)
LEMMA CallerType ==
  ASSUME TypeOK, NEW c \in Caller
  PROVE  caller[c] \in Invocation
BY DEF TypeOK

(* Replacing one invocation by a well-formed one.                          *)
LEMMA BecomesTyped ==
  ASSUME TypeOK, NEW c \in Caller, NEW inv \in Invocation, Becomes(c, inv)
  PROVE  caller' \in [Caller -> Invocation]
BY DEF TypeOK, Becomes

(* The three ways in which most steps do that.                             *)
LEMMA GoToTyped ==
  ASSUME TypeOK, NEW c \in Caller, NEW label \in Label, GoTo(c, label)
  PROVE  caller' \in [Caller -> Invocation]
<1>1. [caller[c] EXCEPT !.pc = label] \in Invocation
  BY CallerType DEF Invocation
<1> QED  BY <1>1, BecomesTyped DEF GoTo

(* Returning from a subroutine keeps the record of the invocation typed.    *)
LEMMA ReturnTyped ==
  ASSUME TypeOK, NEW c \in Caller, NEW label \in Label, NEW status \in Status,
         Return(c, label, status)
  PROVE  caller' \in [Caller -> Invocation]
<1>1. [caller[c] EXCEPT !.pc = label, !.rc = status] \in Invocation
  BY CallerType DEF Invocation
<1> QED  BY <1>1, BecomesTyped DEF Return

(* Leaving through the trap keeps the record of the invocation typed.       *)
LEMMA LeaveTyped ==
  ASSUME TypeOK, NEW c \in Caller, NEW status \in Status, Leave(c, status)
  PROVE  caller' \in [Caller -> Invocation]
<1>1. [caller[c] EXCEPT !.pc = "cleanup", !.way = "trap", !.rc = status] \in Invocation
  BY ZenonT(100), CallerType DEF Invocation, Label
<1> QED  BY <1>1, BecomesTyped DEF Leave

(* Every step of an invocation leaves all of them well-formed.             *)
LEMMA CallerTyped ==
  ASSUME TypeOK, NEW c \in Caller,
         Locking(c) \/ Stopping(c) \/ Starting(c) \/ Ending(c) \/ Reporting(c) \/ SigKill(c)
  PROVE  caller' \in [Caller -> Invocation]
<1> USE DEF Label, Status
<1> DEFINE me == caller[c]
<1>t. me \in Invocation
  BY CallerType
<1>1. CASE MakeDir(c) \/ DirExists(c) \/ WriteOwner(c) \/ Kill(c) \/ RecordFails(c) \/ Publish(c)
             \/ PublishFails(c) \/ NotStarted(c) \/ RemoveOwner(c) \/ CleanUpNothing(c)
             \/ FindStale(c)
  BY <1>1, GoToTyped
     DEF MakeDir, DirExists, WriteOwner, Kill, RecordFails, Publish, PublishFails, NotStarted,
         RemoveOwner, CleanUpNothing, FindStale
<1>2. CASE StopNothing(c) \/ KillFails(c) \/ AlreadyRunning(c) \/ CannotStart(c) \/ CleanUpFails(c)
  BY <1>2, ReturnTyped DEF StopNothing, KillFails, AlreadyRunning, CannotStart, CleanUpFails, AfterStop
<1>3. CASE WriteOwnerFails(c) \/ Wait(c) \/ Refused(c) \/ ReportStatus(c) \/ RemoveStale(c)
  BY <1>3, GoToTyped, LeaveTyped DEF WriteOwnerFails, Wait, Refused, ReportStatus, RemoveStale
<1>4. CASE Begin(c)
  <2>1. PICK op \in {"start", "stop", "restart", "status"} :
          Becomes(c, [me EXCEPT !.op = op, !.pc = IF op = "status" THEN "status" ELSE "lock"])
    BY <1>4 DEF Begin
  <2>2. [me EXCEPT !.op = op, !.pc = IF op = "status" THEN "status" ELSE "lock"] \in Invocation
    BY ZenonT(100), <1>t DEF Invocation
  <2> QED  BY <2>1, <2>2, BecomesTyped
<1>5. CASE SetOwned(c)
  <2>1. [me EXCEPT !.owned = TRUE, !.pc = Entry(c)] \in Invocation
    BY ZenonT(100), <1>t DEF Invocation, Entry
  <2> QED  BY <1>5, <2>1, BecomesTyped DEF SetOwned
<1>6. CASE StopFound(c)
  <2>1. <<pidfile, start[pidfile]>> \in Pid \X Nat
    BY <1>6, InitAssumption DEF StopFound, Running, TypeOK
  <2>2. [me EXCEPT !.pc = "kill", !.target = <<pidfile, start[pidfile]>>] \in Invocation
    BY <1>t, <2>1 DEF Invocation
  <2> QED  BY <1>6, <2>2, BecomesTyped DEF StopFound
<1>7. CASE Stopped(c)
  <2>1. [me EXCEPT !.pc = AfterStop(c), !.rc = "ok", !.target = NoProcess] \in Invocation
    BY ZenonT(100), <1>t DEF Invocation, AfterStop
  <2> QED  BY <1>7, <2>1, BecomesTyped DEF Stopped
<1>8. CASE Spawn(c)
  <2>1. PICK p \in Pid : Becomes(c, [me EXCEPT !.pc = "spawned", !.target = <<p, start[p] + 1>>])
    BY <1>8 DEF Spawn
  <2>2. <<p, start[p] + 1>> \in Pid \X Nat
    BY DEF TypeOK
  <2>3. [me EXCEPT !.pc = "spawned", !.target = <<p, start[p] + 1>>] \in Invocation
    BY <1>t, <2>2 DEF Invocation
  <2> QED  BY <2>1, <2>3, BecomesTyped
<1>9. CASE Record(c)
  <2>1. [me EXCEPT !.pc = "publish", !.active = TRUE] \in Invocation
    BY <1>t DEF Invocation
  <2> QED  BY <1>9, <2>1, BecomesTyped DEF Record
<1>10. CASE KillUnrecorded(c)
  <2>1. [me EXCEPT !.pc = "release", !.rc = "failed", !.target = NoProcess] \in Invocation
    BY ZenonT(100), <1>t DEF Invocation
  <2> QED  BY <1>10, <2>1, BecomesTyped DEF KillUnrecorded
<1>11. CASE Started(c)
  <2>1. [me EXCEPT !.pc = "release", !.rc = "ok", !.active = FALSE, !.target = NoProcess]
          \in Invocation
    BY ZenonT(100), <1>t DEF Invocation
  <2> QED  BY <1>11, <2>1, BecomesTyped DEF Started
<1>12. CASE ChildCleaned(c) \/ ChildOutlives(c)
  <2>1. [me EXCEPT !.pc = "release", !.rc = "failed", !.active = FALSE, !.target = NoProcess]
          \in Invocation
    BY ZenonT(100), <1>t DEF Invocation
  <2> QED  BY <1>12, <2>1, BecomesTyped, ReturnTyped DEF ChildCleaned, ChildOutlives, Failed
<1>13. Past(c) \in Label
  BY DEF Past
<1>14. CASE ReleaseNothing(c) \/ DirGone(c)
  <2>1. [me EXCEPT !.pc = Past(c), !.way = "trap", !.owned = FALSE] \in Invocation
    BY ZenonT(100), <1>t, <1>13 DEF Invocation
  <2> QED  BY <1>14, <2>1, BecomesTyped DEF ReleaseNothing, DirGone, GiveUp
<1>15. CASE RemoveOwnerFails(c) \/ RemoveDirFails(c) \/ DirTaken(c)
  <2>1. [me EXCEPT !.pc = Past(c), !.way = "trap", !.rc = "unproven"] \in Invocation
    BY ZenonT(100), <1>t, <1>13 DEF Invocation
  <2> QED  BY <1>15, <2>1, BecomesTyped DEF RemoveOwnerFails, RemoveDirFails, DirTaken, Unproven
<1>16. CASE RemoveDir(c)
  BY <1>16, GoToTyped DEF RemoveDir
<1>17. CASE CleanUp(c)
  <2>1. [me EXCEPT !.pc = "release", !.active = FALSE, !.target = NoProcess] \in Invocation
    BY <1>t DEF Invocation
  <2> QED  BY <1>17, <2>1, BecomesTyped DEF CleanUp
<1>18. CASE Signal(c)
  <2> DEFINE next == IF me.pc \in {"kill", "unpid"} THEN NoProcess ELSE me.target
             after == [me EXCEPT !.pc = "cleanup", !.way = "trap", !.rc = "signal", !.target = next]
  <2>1. next \in (Pid \X Nat) \cup {NoProcess}
    BY <1>t DEF Invocation
  <2>2. after \in Invocation
    BY ZenonT(100), <1>t, <2>1 DEF Invocation
  <2>3. Becomes(c, after)
    BY <1>18 DEF Signal, Becomes
  <2> QED  BY <2>2, <2>3, BecomesTyped
<1>19. CASE SigKill(c)
  <2>1. Killed(c) \in Invocation
    BY ZenonT(100), <1>t DEF Invocation, Killed
  <2> QED  BY <1>19, <2>1, BecomesTyped DEF SigKill
<1> QED
  BY <1>1, <1>2, <1>3, <1>4, <1>5, <1>6, <1>7, <1>8, <1>9, <1>10, <1>11, <1>12, <1>14, <1>15,
     <1>16, <1>17, <1>18, <1>19
     DEF Locking, Stopping, Starting, Ending, Reporting

(* The variables other than the invocations.                               *)
Plain ==
  /\ proc \in [Pid -> Program] /\ start \in [Pid -> Nat]
  /\ lock \in Caller \cup {Nobody} /\ owner \in Caller \cup {Nobody} /\ litter \in BOOLEAN
  /\ pidfile \in Pid \cup {Nobody}
  /\ loose \subseteq Pid \X Nat
  /\ victims \subseteq {"checked", "unrecorded"}
  /\ faults \in 0..MaxFaults

(* A child that is given up was a process.                                 *)
LEMMA LostTyped ==
  ASSUME TypeOK, NEW c \in Caller
  PROVE  Lost(c) \subseteq Pid \X Nat
<1>1. caller[c].target \in (Pid \X Nat) \cup {NoProcess}
  BY CallerType DEF Invocation
<1> QED
  BY <1>1 DEF Lost, Live

(* Every Xray is an epoch.                                                 *)
LEMMA ManagedTyped ==
  ASSUME TypeOK
  PROVE  Managed \subseteq Pid \X Nat
BY DEF TypeOK, Managed

(* Steps keep them in their types.                                         *)
LEMMA PlainStep ==
  ASSUME IInv, Next
  PROVE  Plain'
<1> USE DEF Plain, TypeOK, Program, Fault, table, lockfiles, history
<1>0. TypeOK
  BY DEF IInv, Basis
<1>1. ASSUME NEW c \in Caller,
             Locking(c) \/ Stopping(c) \/ Starting(c) \/ Ending(c) \/ Reporting(c) \/ SigKill(c)
      PROVE  Plain'
  <2> USE InitAssumption
  <2>t. caller[c].target \in (Pid \X Nat) \cup {NoProcess}
    BY <1>0, CallerType DEF Invocation
  <2>1. CASE Begin(c)
    BY <1>0, <2>1 DEF Begin
  <2>2. CASE MakeDir(c)
    BY <1>0, <2>2 DEF MakeDir
  <2>3. CASE DirExists(c)
    BY <1>0, <2>3 DEF DirExists
  <2>4. CASE WriteOwner(c)
    BY <1>0, <2>4 DEF WriteOwner
  <2>5. CASE WriteOwnerFails(c)
    <3>1. litter' \in BOOLEAN /\ lock' \in Caller \cup {Nobody}
      BY <1>0, <2>5 DEF WriteOwnerFails
    <3>2. faults' \in 0..MaxFaults /\ UNCHANGED <<proc, start, owner, pidfile, loose, victims>>
      BY <1>0, <2>5 DEF WriteOwnerFails
    <3> QED  BY <1>0, <3>1, <3>2
  <2>6. CASE SetOwned(c)
    BY <1>0, <2>6 DEF SetOwned
  <2>7. CASE Wait(c)
    BY <1>0, <2>7 DEF Wait
  <2>8. CASE Refused(c)
    BY <1>0, <2>8 DEF Refused
  <2>9. CASE StopNothing(c)
    BY <1>0, <2>9 DEF StopNothing
  <2>10. CASE StopFound(c)
    BY <1>0, <2>10 DEF StopFound
  <2>11. CASE Kill(c)
    BY <1>0, <2>11 DEF Kill, Terminate, KillPid
  <2>12. CASE KillFails(c)
    BY <1>0, <2>12 DEF KillFails
  <2>13. CASE Stopped(c)
    BY <1>0, <2>13 DEF Stopped
  <2>14. CASE AlreadyRunning(c)
    BY <1>0, <2>14 DEF AlreadyRunning
  <2>15. CASE CannotStart(c)
    BY <1>0, <2>15 DEF CannotStart
  <2>16. CASE Spawn(c)
    BY <1>0, <2>16 DEF Spawn, Fork
  <2>17. CASE Record(c)
    BY <1>0, <2>17 DEF Record
  <2>18. CASE RecordFails(c)
    BY <1>0, <2>18 DEF RecordFails
  <2>19. CASE KillUnrecorded(c)
    BY <1>0, <2>19 DEF KillUnrecorded, KillPid
  <2>20. CASE Publish(c)
    BY <1>0, <2>20, <2>t DEF Publish, Phases, IInv, Basis, At, NoProcess
  <2>21. CASE PublishFails(c)
    <3>1. litter' \in BOOLEAN
      BY <1>0, <2>21 DEF PublishFails
    <3>2. faults' \in 0..MaxFaults /\ UNCHANGED <<proc, start, lock, owner, pidfile, loose, victims>>
      BY <1>0, <2>21 DEF PublishFails
    <3> QED  BY <1>0, <3>1, <3>2
  <2>22. CASE Started(c)
    BY <1>0, <2>22 DEF Started
  <2>23. CASE NotStarted(c)
    BY <1>0, <2>23 DEF NotStarted
  <2>24. CASE ChildCleaned(c)
    BY <1>0, <2>24 DEF ChildCleaned, Terminate, KillPid
  <2>25. CASE ChildOutlives(c)
    BY <1>0, <2>25, <2>t DEF ChildOutlives, Live
  <2>26. CASE ReleaseNothing(c)
    BY <1>0, <2>26 DEF ReleaseNothing
  <2>27. CASE RemoveOwner(c)
    BY <1>0, <2>27 DEF RemoveOwner
  <2>28. CASE RemoveOwnerFails(c)
    BY <1>0, <2>28 DEF RemoveOwnerFails
  <2>29. CASE RemoveDir(c)
    BY <1>0, <2>29 DEF RemoveDir
  <2>30. CASE RemoveDirFails(c)
    BY <1>0, <2>30 DEF RemoveDirFails
  <2>31. CASE CleanUp(c)
    BY <1>0, <2>31, ManagedTyped DEF CleanUp, Terminate, KillPid, Named
  <2>32. CASE CleanUpNothing(c)
    BY <1>0, <2>32 DEF CleanUpNothing
  <2>33. CASE CleanUpFails(c)
    BY <1>0, <2>33, <2>t DEF CleanUpFails, Live
  <2>34. CASE Signal(c)
    <3>1. litter' \in BOOLEAN
      BY <1>0, <2>34 DEF Signal
    <3>2. loose' \subseteq Pid \X Nat
      BY <1>0, <2>34, LostTyped DEF Signal
    <3>3. faults' \in 0..MaxFaults /\ UNCHANGED <<proc, start, lock, owner, pidfile, victims>>
      BY <1>0, <2>34 DEF Signal
    <3> QED  BY <1>0, <3>1, <3>2, <3>3
  <2>35. CASE ReportStatus(c)
    BY <1>0, <2>35 DEF ReportStatus
  <2>36. CASE FindStale(c)
    BY <1>0, <2>36 DEF FindStale
  <2>37. CASE RemoveStale(c)
    BY <1>0, <2>37, ManagedTyped DEF RemoveStale, Named
  <2>39. CASE DirGone(c)
    BY <1>0, <2>39 DEF DirGone
  <2>40. CASE DirTaken(c)
    BY <1>0, <2>40 DEF DirTaken
  <2>38. CASE SigKill(c)
    <3>1. litter' \in BOOLEAN
      BY <1>0, <2>38 DEF SigKill
    <3>2. loose' \subseteq Pid \X Nat
      BY <1>0, <2>38, LostTyped DEF SigKill
    <3>3. faults' \in 0..MaxFaults /\ UNCHANGED <<proc, start, lock, owner, pidfile, victims>>
      BY <1>0, <2>38 DEF SigKill
    <3> QED  BY <1>0, <3>1, <3>2, <3>3
  <2> QED
    BY <1>1, <2>1, <2>2, <2>3, <2>4, <2>5, <2>6, <2>7, <2>8, <2>9, <2>10, <2>11, <2>12, <2>13,
       <2>14, <2>15, <2>16, <2>17, <2>18, <2>19, <2>20, <2>21, <2>22, <2>23, <2>24, <2>25,
       <2>26, <2>27, <2>28, <2>29, <2>30, <2>31, <2>32, <2>33, <2>34, <2>35, <2>36, <2>37, <2>38,
       <2>39, <2>40
       DEF Locking, Stopping, Starting, Ending, Reporting
<1>2. CASE Reboot
  <2>1. proc' \in [Pid -> Program] /\ faults' \in 0..MaxFaults
    BY <1>0, <1>2, InitAssumption DEF Reboot
  <2>2. UNCHANGED <<start, lock, owner, litter, pidfile, loose, victims>>
    BY <1>2 DEF Reboot
  <2> QED  BY <1>0, <2>1, <2>2
<1>3. CASE RemoveLock
  BY <1>0, <1>3 DEF RemoveLock
<1>4. CASE \E p \in Pid : Exec(p) \/ Die(p) \/ Reuse(p)
  <2>1. PICK p \in Pid : Exec(p) \/ Die(p) \/ Reuse(p)
    BY <1>4
  <2>2. proc' \in [Pid -> Program] /\ start' \in [Pid -> Nat] /\ faults' \in 0..MaxFaults
    BY <1>0, <2>1, InitAssumption DEF Exec, Die, Reuse
  <2>3. UNCHANGED <<lock, owner, litter, pidfile, loose, victims>>
    BY <2>1 DEF Exec, Die, Reuse
  <2> QED  BY <1>0, <2>2, <2>3
<1> QED
  BY <1>1, <1>2, <1>3, <1>4 DEF Next, Router

(* The router leaves the invocations alone, or kills them.                 *)
LEMMA NextTyped ==
  ASSUME TypeOK, Next
  PROVE  caller' \in [Caller -> Invocation]
<1>1. CASE Reboot
  <2>1. \A c \in Caller : Killed(c) \in Invocation
    <3> SUFFICES ASSUME NEW c \in Caller
                 PROVE  Killed(c) \in Invocation
      OBVIOUS
    <3>1. caller[c] \in Invocation
      BY CallerType
    <3> QED  BY <3>1 DEF Killed, Invocation, Label, Status
  <2> QED  BY <1>1, <2>1, CallerType DEF Reboot
<1>2. CASE RemoveLock \/ \E p \in Pid : Exec(p) \/ Die(p) \/ Reuse(p)
  BY <1>2 DEF RemoveLock, Exec, Die, Reuse, TypeOK
<1> QED
  BY <1>1, <1>2, CallerTyped DEF Next, Router

-----------------------------------------------------------------------------
(* Locks and kills *)

(* The part of TypeOK that relates two fields.                             *)
Flags == \A c \in Caller : caller[c].active => caller[c].target # NoProcess

(* What is left of an invocation that is killed or signalled.              *)
LEMMA KilledShape ==
  ASSUME TypeOK, NEW d \in Caller
  PROVE  /\ Killed(d).pc = "done" /\ Killed(d).rc = "killed"
         /\ ~Killed(d).active /\ Killed(d).target = NoProcess
BY CallerType DEF Killed, Invocation

(* A signal keeps the child, and forgets the process of a stop.            *)
LEMMA SignalShape ==
  ASSUME TypeOK, NEW c \in Caller, Signal(c)
  PROVE  /\ caller'[c].pc = "cleanup" /\ caller'[c].rc = "signal"
         /\ caller'[c].active = caller[c].active /\ caller'[c].owned = caller[c].owned
         /\ caller'[c].target \in {NoProcess, caller[c].target}
         /\ caller[c].pc \notin {"kill", "unpid"} => caller'[c].target = caller[c].target
         /\ \A d \in Caller \ {c} : caller'[d] = caller[d]
<1> DEFINE next == IF caller[c].pc \in {"kill", "unpid"} THEN NoProcess ELSE caller[c].target
           after == [caller[c] EXCEPT !.pc = "cleanup", !.way = "trap", !.rc = "signal",
                                      !.target = next]
<1>1. caller[c] \in Invocation
  BY CallerType
<1>2. /\ after.pc = "cleanup" /\ after.rc = "signal"
      /\ after.active = caller[c].active /\ after.owned = caller[c].owned
      /\ after.target = next
  BY <1>1 DEF Invocation
<1>3. caller' = [caller EXCEPT ![c] = after]
  BY DEF Signal, Becomes
<1>4. caller'[c] = after /\ \A d \in Caller \ {c} : caller'[d] = caller[d]
  BY <1>3 DEF TypeOK
<1> QED
  BY <1>2, <1>4

(* Steps keep the lock with its maker, and kills with the script.          *)
LEMMA BasisStep ==
  ASSUME IInv, Next, caller' \in [Caller -> Invocation]
  PROVE  Phases' /\ Holding' /\ Genuine' /\ FreedLock' /\ NoForeignKill' /\ Flags'
<1> USE DEF IInv, Phases, Holding, Genuine, FreedLock, NoForeignKill, Flags,
            Inside, Early, Unlocked, Tending,
            Basis, TypeOK, Program, NoProcess, At, Alive, Live, GoTo, Return, Leave, Fault, Becomes,
            table, lockfiles, history, Managed, Named, KillPid, Terminate, Entry, AfterStop, Fork,
            Failed, Past, Unproven, GiveUp, Empty, Lost, Killed, Invocation, Running
<1>0. Basis
  BY DEF IInv
<1>1. ASSUME NEW c \in Caller,
             Locking(c) \/ Stopping(c) \/ Starting(c) \/ Ending(c) \/ Reporting(c) \/ SigKill(c)
      PROVE  Phases' /\ Holding' /\ Genuine' /\ FreedLock' /\ NoForeignKill' /\ Flags'
  <2>1. CASE Begin(c)
    BY <2>1, InitAssumption DEF Begin
  <2>2. CASE MakeDir(c)
    BY <2>2, InitAssumption DEF MakeDir
  <2>3. CASE DirExists(c)
    BY <2>3, InitAssumption DEF DirExists
  <2>4. CASE WriteOwner(c)
    BY <2>4, InitAssumption DEF WriteOwner
  <2>5. CASE WriteOwnerFails(c)
    BY <2>5, InitAssumption DEF WriteOwnerFails
  <2>6. CASE SetOwned(c)
    BY <2>6, InitAssumption DEF SetOwned
  <2>7. CASE Wait(c)
    <3>1. CASE GoTo(c, "lock")
      BY SMTT(60), <2>7, <3>1, InitAssumption DEF Wait
    <3>2. CASE Leave(c, "failed")
      BY <2>7, <3>2, InitAssumption DEF Wait
    <3> QED  BY <2>7, <3>1, <3>2 DEF Wait
  <2>8. CASE Refused(c)
    BY <2>8, InitAssumption DEF Refused
  <2>9. CASE StopNothing(c)
    BY <2>9, InitAssumption DEF StopNothing
  <2>10. CASE StopFound(c)
    BY <2>10, InitAssumption DEF StopFound
  <2>11. CASE Kill(c)
    BY SMTT(60), <2>11, InitAssumption DEF Kill
  <2>12. CASE KillFails(c)
    BY <2>12, InitAssumption DEF KillFails
  <2>13. CASE Stopped(c)
    BY <2>13, InitAssumption DEF Stopped
  <2>14. CASE AlreadyRunning(c)
    BY <2>14, InitAssumption DEF AlreadyRunning
  <2>15. CASE CannotStart(c)
    BY <2>15, InitAssumption DEF CannotStart
  <2>16. CASE Spawn(c)
    BY <2>16, InitAssumption DEF Spawn
  <2>17. CASE Record(c)
    BY <2>17, InitAssumption DEF Record
  <2>18. CASE RecordFails(c)
    BY <2>18, InitAssumption DEF RecordFails
  <2>19. CASE KillUnrecorded(c)
    BY <2>19, InitAssumption DEF KillUnrecorded
  <2>20. CASE Publish(c)
    BY <2>20, InitAssumption DEF Publish
  <2>21. CASE PublishFails(c)
    BY <2>21, InitAssumption DEF PublishFails
  <2>22. CASE Started(c)
    BY <2>22, InitAssumption DEF Started
  <2>23. CASE NotStarted(c)
    BY <2>23, InitAssumption DEF NotStarted
  <2>24. CASE ChildCleaned(c)
    BY <2>24, InitAssumption DEF ChildCleaned
  <2>25. CASE ChildOutlives(c)
    <3>1. CASE At(c, "unpublish") /\ Return(c, "release", "failed") /\ UNCHANGED pidfile
      BY <2>25, <3>1, InitAssumption DEF ChildOutlives
    <3>2. CASE At(c, "failed") /\ Failed(c)
      BY <2>25, <3>2, InitAssumption DEF ChildOutlives
    <3> QED  BY <2>25, <3>1, <3>2 DEF ChildOutlives
  <2>26. CASE ReleaseNothing(c)
    BY <2>26, InitAssumption DEF ReleaseNothing
  <2>27. CASE RemoveOwner(c)
    BY <2>27, InitAssumption DEF RemoveOwner
  <2>28. CASE RemoveOwnerFails(c)
    BY <2>28, InitAssumption DEF RemoveOwnerFails
  <2>29. CASE RemoveDir(c)
    BY <2>29, InitAssumption DEF RemoveDir
  <2>30. CASE RemoveDirFails(c)
    BY <2>30, InitAssumption DEF RemoveDirFails
  <2>31. CASE CleanUp(c)
    BY <2>31, InitAssumption DEF CleanUp
  <2>32. CASE CleanUpNothing(c)
    BY <2>32, InitAssumption DEF CleanUpNothing
  <2>33. CASE CleanUpFails(c)
    BY SMTT(60), <2>33, InitAssumption DEF CleanUpFails
  <2>34. CASE Signal(c)
    <3>0. TypeOK
      BY <1>0
    <3>1. /\ caller'[c].pc = "cleanup" /\ caller'[c].rc = "signal"
          /\ caller'[c].active = caller[c].active /\ caller'[c].owned = caller[c].owned
          /\ caller'[c].target \in {NoProcess, caller[c].target}
          /\ caller[c].pc \notin {"kill", "unpid"} => caller'[c].target = caller[c].target
          /\ \A d \in Caller \ {c} : caller'[d] = caller[d]
      BY <2>34, <3>0, SignalShape
    <3>2. Alive(c) /\ UNCHANGED <<proc, start, lock, owner, victims>>
      BY <2>34 DEF Signal
    <3> HIDE DEF GoTo, Return, Leave, Becomes, Failed, Unproven, Killed, Lost, Terminate, Live
    <3>3. Phases' /\ Holding' /\ FreedLock' /\ NoForeignKill'
      BY <1>0, <3>1, <3>2
    <3>4. Genuine' /\ Flags'
      BY <1>0, <3>1, <3>2
    <3> QED  BY <3>3, <3>4
  <2>35. CASE ReportStatus(c)
    BY <2>35, InitAssumption DEF ReportStatus
  <2>36. CASE FindStale(c)
    BY <2>36, InitAssumption DEF FindStale
  <2>37. CASE RemoveStale(c)
    BY <2>37, InitAssumption DEF RemoveStale
  <2>39. CASE DirGone(c)
    BY <2>39, InitAssumption DEF DirGone
  <2>40. CASE DirTaken(c)
    BY <2>40, InitAssumption DEF DirTaken
  <2>38. CASE SigKill(c)
    BY <2>38, InitAssumption DEF SigKill
  <2> QED
    BY <1>1, <2>1, <2>2, <2>3, <2>4, <2>5, <2>6, <2>7, <2>8, <2>9, <2>10, <2>11, <2>12, <2>13,
       <2>14, <2>15, <2>16, <2>17, <2>18, <2>19, <2>20, <2>21, <2>22, <2>23, <2>24, <2>25,
       <2>26, <2>27, <2>28, <2>29, <2>30, <2>31, <2>32, <2>33, <2>34, <2>35, <2>36, <2>37, <2>38,
       <2>39, <2>40
       DEF Locking, Stopping, Starting, Ending, Reporting
<1>2. CASE Reboot
  <2>1. \A d \in Caller : caller'[d] = IF Alive(d) THEN Killed(d) ELSE caller[d]
    BY <1>2 DEF Reboot
  <2>2. /\ \A p \in Pid : proc'[p] = "free"
        /\ UNCHANGED <<start, lock, owner, pidfile, loose, victims>>
    BY <1>2 DEF Reboot
  <2>3. \A d \in Caller : \/ caller'[d] = caller[d] /\ ~Alive(d)
                          \/ /\ caller'[d].pc = "done" /\ caller'[d].rc = "killed"
                             /\ ~caller'[d].active /\ caller'[d].target = NoProcess
    <3> SUFFICES ASSUME NEW d \in Caller, Alive(d)
                 PROVE  /\ caller'[d].pc = "done" /\ caller'[d].rc = "killed"
                        /\ ~caller'[d].active /\ caller'[d].target = NoProcess
      BY <2>1
    <3>1. TypeOK
      BY <1>0
    <3> HIDE DEF Killed, Alive
    <3> QED  BY <2>1, <3>1, KilledShape
  <2> QED  BY SMTT(60), <2>2, <2>3
<1>3. CASE RemoveLock
  BY <1>3, InitAssumption DEF RemoveLock
<1>4. CASE \E p \in Pid : Exec(p) \/ Die(p) \/ Reuse(p)
  <2>1. PICK p \in Pid : Exec(p) \/ Die(p) \/ Reuse(p)
    BY <1>4
  <2>2. CASE Exec(p)
    BY <2>2, InitAssumption DEF Exec
  <2>3. CASE Die(p)
    BY <2>3, InitAssumption DEF Die
  <2>4. CASE Reuse(p)
    BY <2>4, InitAssumption DEF Reuse
  <2> QED  BY <2>1, <2>2, <2>3, <2>4
<1> QED
  BY <1>1, <1>2, <1>3, <1>4 DEF Next, Router

-----------------------------------------------------------------------------
(* Children *)

(* Under the lock, before a child is spawned or killed: if the pid file    *)
(* names no Xray, there is none.                                           *)
LEMMA NothingRuns ==
  ASSUME IInv, NEW c \in Caller, At(c, "start") \/ At(c, "stop"), ~Running(pidfile)
  PROVE  Managed \subseteq loose
<1> USE DEF IInv, Basis, At
<1> SUFFICES ASSUME NEW e \in Managed, e \notin loose
             PROVE  FALSE
  OBVIOUS
<1>1. lock = c /\ Alive(c) /\ ~Parent(c)
  BY DEF Holding, Inside, Alive, Parent, Phases, Early
<1>2. ASSUME NEW d \in Caller, Parent(d), caller[d].target = e
      PROVE  FALSE
  <2>1. lock = d
    BY <1>2 DEF Children, Parent
  <2> QED  BY <1>1, <1>2, <2>1
<1>3. pidfile = e[1]
  BY <1>2 DEF NoOrphan
<1>4. proc[e[1]] = "fork"
  BY <1>3, InitAssumption DEF Managed, Running
<1>5. QED
  BY <1>1, <1>2, <1>4 DEF Forks

(* A step of one invocation that leaves the processes and the pid file     *)
(* alone.  A child it gives up is lost, or named and not a shell any more, *)
(* or named behind a dead parent's lock.                                   *)
Quiet(c) ==
  /\ UNCHANGED <<proc, start, pidfile>> /\ loose \subseteq loose'
  /\ \A d \in Caller \ {c} : caller'[d] = caller[d]
  /\ lock = Nobody \/ lock' = lock \/ (lock = c /\ Alive(c))
  /\ lock' \in {lock, c, Nobody}
  /\ lock = c /\ ~Alive(c) => ~Alive(c)'
  /\ Parent(c)' => Parent(c) /\ caller'[c].target = caller[c].target
  /\ Parent(c) /\ caller[c].pc \in Tending \cup {"cleanup"} /\ caller[c].target \in Managed \ loose'
       => \/ /\ Parent(c)' /\ lock' = lock
             /\ caller'[c].pc \in Tending \cup {"cleanup"}
          \/ /\ ~Parent(c)' /\ pidfile = caller[c].target[1]
             /\ \/ proc[pidfile] = "xray"
                \/ lock' = c /\ ~Alive(c)'
  /\ caller'[c].pc \in Tending \cup {"kill"}
       => caller[c].pc \in Tending \cup {"kill"} /\ caller'[c].target = caller[c].target
  /\ caller'[c].pc \notin {"unpid", "sleep"}
  /\ caller'[c].pc \in {"spawned", "unrecorded", "publish"}
       => caller[c].pc \in {"spawned", "unrecorded", "publish"}
  /\ caller'[c].op = "stop" /\ caller'[c].rc = "ok" /\ lock' = c
       => caller[c].op = "stop" /\ caller[c].rc = "ok" /\ lock = c

(* Quiet steps keep the account of the Xrays.                              *)
LEMMA QuietStep ==
  ASSUME IInv, NEW c \in Caller, Quiet(c)
  PROVE  Children' /\ Forks' /\ NoOrphan' /\ Stops' /\ StoppedMeansNone'
<1>1. Children /\ Forks /\ NoOrphan /\ Stops /\ StoppedMeansNone
  BY DEF IInv
<1>2. Managed' = Managed /\ pidfile' = pidfile /\ proc' = proc /\ loose \subseteq loose'
  BY DEF Quiet, Managed
<1>3. ASSUME NEW d \in Caller, d # c
      PROVE  caller'[d] = caller[d] /\ (Parent(d)' <=> Parent(d)) /\ (Alive(d)' <=> Alive(d))
  <2>1. caller'[d] = caller[d]
    BY <1>3 DEF Quiet
  <2> QED  BY <2>1 DEF Parent, Alive
<1>4. Parent(c)' => Parent(c) /\ caller'[c].target = caller[c].target
  BY DEF Quiet
<1>5. ASSUME Parent(c), caller[c].target \in Managed \ loose'
      PROVE  \/ /\ Parent(c)' /\ lock' = lock
                /\ caller'[c].pc \in Tending \cup {"cleanup"}
             \/ /\ ~Parent(c)' /\ pidfile = caller[c].target[1]
                /\ \/ proc[pidfile] = "xray"
                   \/ lock' = c /\ ~Alive(c)'
  <2>1. caller[c].pc \in Tending \cup {"cleanup"}
    BY <1>1, <1>2, <1>5 DEF Children
  <2> QED  BY <1>5, <2>1 DEF Quiet
<1>6. Children'
  <2> SUFFICES ASSUME NEW d \in Caller, Parent(d)', caller'[d].target \in Managed \ loose'
               PROVE  /\ caller'[d].pc \in Tending \cup {"cleanup"} /\ lock' = d
                      /\ Managed \ loose' = {caller'[d].target}
    BY <1>2 DEF Children
  <2>1. Parent(d) /\ caller'[d].target = caller[d].target
    BY <1>3, <1>4
  <2>2. /\ caller[d].pc \in Tending \cup {"cleanup"} /\ lock = d
        /\ Managed \ loose = {caller[d].target}
    BY <1>1, <1>2, <2>1 DEF Children
  <2>4. lock' = d
    BY <1>5, <2>1, <2>2, InitAssumption DEF Quiet
  <2>3. Managed \ loose' = {caller'[d].target}
    <3>1. Managed \ loose' \subseteq Managed \ loose
      BY <1>2
    <3> QED  BY <2>1, <2>2, <3>1
  <2> QED  BY <1>3, <1>5, <2>1, <2>2, <2>3, <2>4
<1>7. Forks'
  <2> SUFFICES ASSUME NEW e \in Managed \ loose', proc[e[1]] = "fork"
               PROVE  \/ \E d \in Caller : Parent(d)' /\ caller'[d].target = e
                      \/ lock' # Nobody /\ ~Alive(lock)'
    BY <1>2 DEF Forks
  <2>1. \/ \E d \in Caller : Parent(d) /\ caller[d].target = e
        \/ lock # Nobody /\ ~Alive(lock)
    BY <1>1, <1>2 DEF Forks
  <2>2. ASSUME NEW d \in Caller, Parent(d), caller[d].target = e
        PROVE  \/ Parent(d)' /\ caller'[d].target = e
               \/ lock' # Nobody /\ ~Alive(lock)'
    BY <1>3, <1>4, <1>5, <2>2, InitAssumption
  <2>3. ASSUME lock # Nobody, ~Alive(lock)
        PROVE  lock' # Nobody /\ ~Alive(lock)'
    <3>1. lock \in Caller /\ lock' = lock
      BY <2>3 DEF Quiet, IInv, Basis, TypeOK
    <3>2. CASE lock = c
      BY <2>3, <3>1, <3>2 DEF Quiet
    <3>3. CASE lock # c
      BY <1>3, <2>3, <3>1, <3>3
    <3> QED  BY <3>2, <3>3
  <2> QED  BY <2>1, <2>2, <2>3
<1>8. NoOrphan'
  <2> SUFFICES ASSUME NEW e \in Managed \ loose'
               PROVE  pidfile = e[1] \/ \E d \in Caller : Parent(d)' /\ caller'[d].target = e
    BY <1>2 DEF NoOrphan
  <2>1. pidfile = e[1] \/ \E d \in Caller : Parent(d) /\ caller[d].target = e
    BY <1>1, <1>2 DEF NoOrphan
  <2>2. ASSUME NEW d \in Caller, Parent(d), caller[d].target = e
        PROVE  pidfile = e[1] \/ (Parent(d)' /\ caller'[d].target = e)
    BY <1>3, <1>4, <1>5, <2>2
  <2> QED  BY <2>1, <2>2
<1>9. Stops'
  <2> SUFFICES ASSUME NEW d \in Caller
               PROVE  /\ caller'[d].pc \in Tending \cup {"kill"}
                           => Managed \ loose' \subseteq {caller'[d].target}
                      /\ caller'[d].pc = "unpid" => Managed \subseteq loose'
                      /\ caller'[d].pc \in {"spawned", "unrecorded", "publish"} => pidfile = Nobody
                      /\ caller'[d].pc = "sleep" => pidfile \in {Nobody, caller'[d].target[1]}
    BY <1>2 DEF Stops, At
  <2>1. /\ caller[d].pc \in Tending \cup {"kill"} => Managed \ loose \subseteq {caller[d].target}
        /\ caller[d].pc = "unpid" => Managed \subseteq loose
        /\ caller[d].pc \in {"spawned", "unrecorded", "publish"} => pidfile = Nobody
        /\ caller[d].pc = "sleep" => pidfile \in {Nobody, caller[d].target[1]}
    BY <1>1 DEF Stops, At
  <2>2. CASE d = c
    BY <1>2, <2>1, <2>2 DEF Quiet
  <2>3. CASE d # c
    BY <1>2, <1>3, <2>1, <2>3
  <2> QED  BY <2>2, <2>3
<1>10. StoppedMeansNone'
  <2> SUFFICES ASSUME NEW d \in Caller, caller'[d].op = "stop", caller'[d].rc = "ok",
                      lock' = d
               PROVE  Managed \subseteq loose'
    BY <1>2 DEF StoppedMeansNone
  <2>1. caller[d].op = "stop" /\ caller[d].rc = "ok" /\ lock = d
    BY <1>3, InitAssumption DEF Quiet
  <2> QED  BY <1>1, <1>2, <2>1 DEF StoppedMeansNone
<1> QED
  BY <1>6, <1>7, <1>8, <1>9, <1>10

(* An invocation after its step, all but the way it took.                  *)
Moves(c, pc, op, target, active, owned, rc) ==
  /\ caller'[c].pc = pc /\ caller'[c].op = op /\ caller'[c].target = target
  /\ caller'[c].active = active /\ caller'[c].owned = owned /\ caller'[c].rc = rc
  /\ \A d \in Caller \ {c} : caller'[d] = caller[d]

(* The step replaces one invocation; three ways in which most steps do.    *)
LEMMA Moved ==
  ASSUME TypeOK, NEW c \in Caller, NEW inv, Becomes(c, inv)
  PROVE  caller'[c] = inv /\ \A d \in Caller \ {c} : caller'[d] = caller[d]
BY DEF TypeOK, Becomes

(* GoTo moves the label only.                                              *)
LEMMA GoToMoves ==
  ASSUME TypeOK, NEW c \in Caller, NEW label, GoTo(c, label)
  PROVE  Moves(c, label, caller[c].op, caller[c].target, caller[c].active, caller[c].owned,
               caller[c].rc)
<1>1. caller[c] \in Invocation
  BY CallerType
<1>2. /\ caller'[c] = [caller[c] EXCEPT !.pc = label]
      /\ \A d \in Caller \ {c} : caller'[d] = caller[d]
  BY Moved DEF GoTo
<1> QED
  BY <1>1, <1>2 DEF Moves, Invocation

(* Return also sets the status.                                            *)
LEMMA ReturnMoves ==
  ASSUME TypeOK, NEW c \in Caller, NEW label, NEW status, Return(c, label, status)
  PROVE  Moves(c, label, caller[c].op, caller[c].target, caller[c].active, caller[c].owned, status)
<1>1. caller[c] \in Invocation
  BY CallerType
<1>2. /\ caller'[c] = [caller[c] EXCEPT !.pc = label, !.rc = status]
      /\ \A d \in Caller \ {c} : caller'[d] = caller[d]
  BY Moved DEF Return
<1> QED
  BY <1>1, <1>2 DEF Moves, Invocation

(* Leave goes to the EXIT trap.                                            *)
LEMMA LeaveMoves ==
  ASSUME TypeOK, NEW c \in Caller, NEW status, Leave(c, status)
  PROVE  Moves(c, "cleanup", caller[c].op, caller[c].target, caller[c].active, caller[c].owned,
               status)
<1>1. caller[c] \in Invocation
  BY CallerType
<1>2. /\ caller'[c] = [caller[c] EXCEPT !.pc = "cleanup", !.way = "trap", !.rc = status]
      /\ \A d \in Caller \ {c} : caller'[d] = caller[d]
  BY Moved DEF Leave
<1> QED
  BY <1>1, <1>2 DEF Moves, Invocation

(* Most steps of an invocation are quiet.                                  *)
LEMMA Quiets ==
  ASSUME IInv, NEW c \in Caller,
         \/ Begin(c) \/ MakeDir(c) \/ DirExists(c) \/ WriteOwner(c) \/ WriteOwnerFails(c)
         \/ SetOwned(c) \/ Wait(c) \/ Refused(c) \/ KillFails(c) \/ AlreadyRunning(c)
         \/ Record(c) \/ RecordFails(c) \/ PublishFails(c) \/ NotStarted(c)
         \/ ReleaseNothing(c) \/ RemoveOwner(c) \/ RemoveOwnerFails(c) \/ RemoveDir(c)
         \/ RemoveDirFails(c) \/ DirGone(c) \/ DirTaken(c) \/ CleanUpNothing(c) \/ CleanUpFails(c) \/ Signal(c)
         \/ ReportStatus(c) \/ FindStale(c) \/ SigKill(c)
         \/ (ChildOutlives(c) /\ At(c, "unpublish"))
  PROVE  Quiet(c)
<1> USE DEF table, lockfiles, history
<1>0. TypeOK
  BY DEF IInv, Basis
<1>t. caller[c] \in Invocation
  BY <1>0, CallerType
<1>p. /\ caller[c].pc \in Unlocked => ~caller[c].owned /\ caller[c].rc = "none"
      /\ caller[c].pc \in Early => ~caller[c].active
      /\ caller[c].pc \in Tending \cup {"start"} => caller[c].op # "stop"
      /\ caller[c].pc = "new" => lock # c
      /\ caller[c].pc \in Inside \cup {"own", "rmdir"} => lock = c
  BY DEF IInv, Basis, Phases, Holding, At
<1>lost. ASSUME caller[c].target \in Managed \ Lost(c)
         PROVE  /\ pidfile = caller[c].target[1]
                /\ caller[c].pc \notin {"spawned", "unrecorded"}
  <2>1. pidfile = caller[c].target[1] /\ pidfile \in Pid
    BY <1>0, <1>lost, InitAssumption DEF Managed, Lost, Live, NoProcess, TypeOK
  <2>2. caller[c].pc \in {"spawned", "unrecorded"} => pidfile = Nobody
    BY DEF IInv, Stops
  <2> QED  BY <2>1, <2>2, InitAssumption
<1>1. CASE MakeDir(c)
  <2>1. Moves(c, "own", caller[c].op, caller[c].target, caller[c].active, caller[c].owned,
              caller[c].rc)
    BY <1>0, <1>1, GoToMoves DEF MakeDir
  <2> QED
    BY <1>1, <1>p, <2>1, InitAssumption
       DEF Moves, MakeDir,
           Quiet, Parent, Alive, At, Unlocked, Early, Tending, Inside
<1>2. CASE DirExists(c)
  <2>1. Moves(c, "inspect", caller[c].op, caller[c].target, caller[c].active, caller[c].owned,
              caller[c].rc)
    BY <1>0, <1>2, GoToMoves DEF DirExists
  <2> QED
    BY <1>2, <1>p, <2>1, InitAssumption
       DEF Moves, DirExists,
           Quiet, Parent, Alive, At, Unlocked, Early, Tending, Inside
<1>3. CASE WriteOwner(c)
  <2>1. Moves(c, "owned", caller[c].op, caller[c].target, caller[c].active, caller[c].owned,
              caller[c].rc)
    BY <1>0, <1>3, GoToMoves DEF WriteOwner
  <2> QED
    BY <1>3, <1>p, <2>1, InitAssumption
       DEF Moves, WriteOwner,
           Quiet, Parent, Alive, At, Unlocked, Early, Tending, Inside
<1>4. CASE WriteOwnerFails(c)
  <2>1. Moves(c, "cleanup", caller[c].op, caller[c].target, caller[c].active, caller[c].owned,
              "failed")
    BY <1>0, <1>4, LeaveMoves DEF WriteOwnerFails
  <2> QED
    BY <1>4, <1>p, <2>1, InitAssumption
       DEF Moves, WriteOwnerFails,
           Quiet, Parent, Alive, At, Unlocked, Early, Tending, Inside
<1>5. CASE SetOwned(c)
  <2>1. /\ caller'[c] = [caller[c] EXCEPT !.owned = TRUE, !.pc = Entry(c)]
        /\ \A d \in Caller \ {c} : caller'[d] = caller[d]
    BY <1>0, <1>5, Moved DEF SetOwned, Unproven
  <2>2. Moves(c, Entry(c), caller[c].op, caller[c].target, caller[c].active, TRUE,
              caller[c].rc)
    BY <1>t, <2>1 DEF Moves, Invocation
  <2> QED
    BY <1>5, <1>p, <2>2, InitAssumption
       DEF Moves, SetOwned,
           Quiet, Parent, Alive, At, Unlocked, Early, Tending, Inside, Entry
<1>6. CASE Refused(c)
  <2>1. Moves(c, "cleanup", caller[c].op, caller[c].target, caller[c].active, caller[c].owned,
              "failed")
    BY <1>0, <1>6, LeaveMoves DEF Refused
  <2> QED
    BY <1>6, <1>p, <2>1, InitAssumption
       DEF Moves, Refused,
           Quiet, Parent, Alive, At, Unlocked, Early, Tending, Inside
<1>7. CASE KillFails(c)
  <2>1. Moves(c, "release", caller[c].op, caller[c].target, caller[c].active, caller[c].owned,
              "failed")
    BY <1>0, <1>7, ReturnMoves DEF KillFails
  <2> QED
    BY <1>7, <1>p, <2>1, InitAssumption
       DEF Moves, KillFails,
           Quiet, Parent, Alive, At, Unlocked, Early, Tending, Inside
<1>8. CASE AlreadyRunning(c)
  <2>1. Moves(c, "release", caller[c].op, caller[c].target, caller[c].active, caller[c].owned,
              "ok")
    BY <1>0, <1>8, ReturnMoves DEF AlreadyRunning
  <2> QED
    BY <1>8, <1>p, <2>1, InitAssumption
       DEF Moves, AlreadyRunning,
           Quiet, Parent, Alive, At, Unlocked, Early, Tending, Inside
<1>9. CASE Record(c)
  <2>1. /\ caller'[c] = [caller[c] EXCEPT !.pc = "publish", !.active = TRUE]
        /\ \A d \in Caller \ {c} : caller'[d] = caller[d]
    BY <1>0, <1>9, Moved DEF Record, Unproven
  <2>2. Moves(c, "publish", caller[c].op, caller[c].target, TRUE, caller[c].owned,
              caller[c].rc)
    BY <1>t, <2>1 DEF Moves, Invocation
  <2> QED
    BY <1>9, <1>p, <2>2, InitAssumption
       DEF Moves, Record,
           Quiet, Parent, Alive, At, Unlocked, Early, Tending, Inside
<1>10. CASE RecordFails(c)
  <2>1. Moves(c, "unrecorded", caller[c].op, caller[c].target, caller[c].active,
              caller[c].owned, caller[c].rc)
    BY <1>0, <1>10, GoToMoves DEF RecordFails
  <2> QED
    BY <1>10, <1>p, <2>1, InitAssumption
       DEF Moves, RecordFails,
           Quiet, Parent, Alive, At, Unlocked, Early, Tending, Inside
<1>11. CASE PublishFails(c)
  <2>1. Moves(c, "unpublish", caller[c].op, caller[c].target, caller[c].active,
              caller[c].owned, caller[c].rc)
    BY <1>0, <1>11, GoToMoves DEF PublishFails
  <2> QED
    BY <1>11, <1>p, <2>1, InitAssumption
       DEF Moves, PublishFails,
           Quiet, Parent, Alive, At, Unlocked, Early, Tending, Inside
<1>12. CASE NotStarted(c)
  <2>1. Moves(c, "failed", caller[c].op, caller[c].target, caller[c].active, caller[c].owned,
              caller[c].rc)
    BY <1>0, <1>12, GoToMoves DEF NotStarted
  <2> QED
    BY <1>12, <1>p, <2>1, InitAssumption
       DEF Moves, NotStarted,
           Quiet, Parent, Alive, At, Unlocked, Early, Tending, Inside
<1>13. CASE ReleaseNothing(c) \/ DirGone(c)
  <2>1. /\ caller'[c] = [caller[c] EXCEPT !.pc = Past(c), !.way = "trap", !.owned = FALSE]
        /\ \A d \in Caller \ {c} : caller'[d] = caller[d]
    BY <1>0, <1>13, Moved DEF ReleaseNothing, DirGone, GiveUp
  <2>2. Moves(c, Past(c), caller[c].op, caller[c].target, caller[c].active, FALSE, caller[c].rc)
    BY <1>t, <2>1 DEF Moves, Invocation
  <2> QED
    BY <1>13, <1>p, <2>2, InitAssumption
       DEF Moves, ReleaseNothing, DirGone,
           Quiet, Parent, Alive, At, Unlocked, Early, Tending, Inside, Past
<1>14. CASE RemoveOwner(c)
  <2>1. Moves(c, "rmdir", caller[c].op, caller[c].target, caller[c].active, caller[c].owned,
              caller[c].rc)
    BY <1>0, <1>14, GoToMoves DEF RemoveOwner
  <2> QED
    BY <1>14, <1>p, <2>1, InitAssumption
       DEF Moves, RemoveOwner,
           Quiet, Parent, Alive, At, Unlocked, Early, Tending, Inside
<1>15. CASE RemoveOwnerFails(c)
  <2>1. /\ caller'[c] = [caller[c] EXCEPT !.pc = Past(c), !.way = "trap", !.rc = "unproven"]
        /\ \A d \in Caller \ {c} : caller'[d] = caller[d]
    BY <1>0, <1>15, Moved DEF RemoveOwnerFails, Unproven
  <2>2. Moves(c, Past(c), caller[c].op, caller[c].target, caller[c].active, caller[c].owned,
              "unproven")
    BY <1>t, <2>1 DEF Moves, Invocation
  <2> QED
    BY <1>15, <1>p, <2>2, InitAssumption
       DEF Moves, RemoveOwnerFails,
           Quiet, Parent, Alive, At, Unlocked, Early, Tending, Inside, Past
<1>16. CASE RemoveDir(c)
  <2>1. Moves(c, "removed", caller[c].op, caller[c].target, caller[c].active, caller[c].owned,
              caller[c].rc)
    BY <1>0, <1>16, GoToMoves DEF RemoveDir
  <2> QED
    BY <1>16, <1>p, <2>1, InitAssumption
       DEF Moves, RemoveDir,
           Quiet, Parent, Alive, At, Unlocked, Early, Tending, Inside
<1>17. CASE RemoveDirFails(c) \/ DirTaken(c)
  <2>1. /\ caller'[c] = [caller[c] EXCEPT !.pc = Past(c), !.way = "trap", !.rc = "unproven"]
        /\ \A d \in Caller \ {c} : caller'[d] = caller[d]
    BY <1>0, <1>17, Moved DEF RemoveDirFails, DirTaken, Unproven
  <2>2. Moves(c, Past(c), caller[c].op, caller[c].target, caller[c].active, caller[c].owned,
              "unproven")
    BY <1>t, <2>1 DEF Moves, Invocation
  <2> QED
    BY <1>17, <1>p, <2>2, InitAssumption
       DEF Moves, RemoveDirFails, DirTaken,
           Quiet, Parent, Alive, At, Unlocked, Early, Tending, Inside, Past
<1>18. CASE CleanUpNothing(c)
  <2>1. Moves(c, "release", caller[c].op, caller[c].target, caller[c].active, caller[c].owned,
              caller[c].rc)
    BY <1>0, <1>18, GoToMoves DEF CleanUpNothing
  <2> QED
    BY <1>18, <1>p, <2>1, InitAssumption
       DEF Moves, CleanUpNothing,
           Quiet, Parent, Alive, At, Unlocked, Early, Tending, Inside
<1>19. CASE ReportStatus(c)
  <2>1. PICK rc \in {"ok", "down"} :
          Moves(c, "cleanup", caller[c].op, caller[c].target, caller[c].active, caller[c].owned, rc)
    BY <1>0, <1>19, LeaveMoves DEF ReportStatus
  <2>2. caller[c].pc = "status" /\ caller[c].op = "status" /\ ~caller[c].active
    BY <1>19, <1>p DEF ReportStatus, At, Early, IInv, Basis, Phases
  <2>3. UNCHANGED <<proc, start, pidfile, loose, lock>>
    BY <1>19 DEF ReportStatus
  <2>4. ~Parent(c) /\ ~Parent(c)' /\ Alive(c) /\ Alive(c)'
    BY <2>1, <2>2 DEF Moves, Parent, Alive
  <2>5. /\ caller'[c].pc \notin Tending \cup {"kill", "unpid"}
        /\ \A d \in Caller \ {c} : caller'[d] = caller[d]
    BY <2>1 DEF Moves, Tending
  <2>6. caller'[c].op = "status"
    BY <2>1, <2>2 DEF Moves
  <2> QED
    BY <2>3, <2>4, <2>5, <2>6 DEF Quiet, Tending
<1>20. CASE FindStale(c)
  <2>1. Moves(c, "unlink", caller[c].op, caller[c].target, caller[c].active, caller[c].owned,
              caller[c].rc)
    BY <1>0, <1>20, GoToMoves DEF FindStale
  <2> QED
    BY <1>20, <1>p, <2>1, InitAssumption
       DEF Moves, FindStale,
           Quiet, Parent, Alive, At, Unlocked, Early, Tending, Inside
<1>21. CASE Begin(c)
  <2>1. PICK op \in {"start", "stop", "restart", "status"} :
          Becomes(c, [caller[c] EXCEPT !.op = op, !.pc = IF op = "status" THEN "status" ELSE "lock"])
    BY <1>21 DEF Begin
  <2>2. /\ caller'[c] = [caller[c] EXCEPT !.op = op, !.pc = IF op = "status" THEN "status" ELSE "lock"]
        /\ \A d \in Caller \ {c} : caller'[d] = caller[d]
    BY <1>0, <2>1, Moved
  <2>3. Moves(c, IF op = "status" THEN "status" ELSE "lock", op, caller[c].target, caller[c].active,
              caller[c].owned, caller[c].rc)
    BY <1>t, <2>2 DEF Moves, Invocation
  <2> QED
    BY <1>21, <1>p, <2>3 DEF Moves, Begin,
           Quiet, Parent, Alive, At, Unlocked, Early, Tending, Inside
<1>22. CASE Wait(c)
  <2>1. \E pc \in {"lock", "cleanup"}, rc \in {"failed", caller[c].rc} :
          Moves(c, pc, caller[c].op, caller[c].target, caller[c].active, caller[c].owned, rc)
    BY <1>0, <1>22, GoToMoves, LeaveMoves DEF Wait
  <2> QED
    BY <1>22, <1>p, <2>1 DEF Moves, Wait,
           Quiet, Parent, Alive, At, Unlocked, Early, Tending, Inside
<1>23. CASE CleanUpFails(c)
  <2>1. Moves(c, "release", caller[c].op, caller[c].target, caller[c].active, caller[c].owned,
              IF caller[c].rc = "failed" THEN "failed" ELSE "unproven")
    BY <1>0, <1>23, ReturnMoves DEF CleanUpFails
  <2> QED
    BY <1>23, <1>p, <2>1 DEF Moves, CleanUpFails,
           Quiet, Parent, Alive, At, Unlocked, Early, Tending, Inside
<1>24. CASE Signal(c)
  <2>1. /\ caller'[c].pc = "cleanup" /\ caller'[c].rc = "signal"
        /\ caller'[c].active = caller[c].active /\ caller'[c].owned = caller[c].owned
        /\ caller[c].pc \notin {"kill", "unpid"} => caller'[c].target = caller[c].target
        /\ \A d \in Caller \ {c} : caller'[d] = caller[d]
    BY <1>0, <1>24, SignalShape
  <2>2. Alive(c) /\ UNCHANGED <<proc, start, pidfile, lock>> /\ loose \subseteq loose'
    BY <1>24 DEF Signal
  <2>3. ASSUME ~caller[c].active, caller[c].pc \in {"spawned", "unrecorded"},
               caller[c].target \in Managed \ loose'
        PROVE  FALSE
    BY <1>24, <2>3, <1>lost DEF Signal
  <2> QED
    BY <1>p, <2>1, <2>2, <2>3 DEF Quiet, Parent, Alive, At, Unlocked, Early, Tending, Inside
<1>25. CASE SigKill(c)
  <2>1. Moves(c, "done", caller[c].op, NoProcess, FALSE, caller[c].owned, "killed")
    <3>1. caller'[c] = Killed(c) /\ \A d \in Caller \ {c} : caller'[d] = caller[d]
      BY <1>0, <1>25, Moved DEF SigKill
    <3> QED  BY <1>t, <3>1 DEF Moves, Killed, Invocation
  <2>2. Alive(c) /\ UNCHANGED <<proc, start, pidfile, lock>> /\ loose \subseteq loose'
    BY <1>25 DEF SigKill
  <2>3. ASSUME Parent(c), caller[c].target \in Managed \ loose'
        PROVE  pidfile = caller[c].target[1] /\ lock = c
    <3>1. lock = c
      BY <2>2, <2>3 DEF IInv, Children
    <3> QED  BY <1>25, <2>2, <2>3, <3>1, <1>lost DEF SigKill
  <2> QED
    BY <2>1, <2>2, <2>3 DEF Moves,
           Quiet, Parent, Alive, At, Unlocked, Early, Tending, Inside
<1>26. CASE ChildOutlives(c) /\ At(c, "unpublish")
  <2>1. Moves(c, "release", caller[c].op, caller[c].target, caller[c].active, caller[c].owned, "failed")
    BY <1>0, <1>26, ReturnMoves DEF ChildOutlives, At
  <2> QED
    BY <1>p, <1>26, <2>1 DEF Moves, ChildOutlives,
           Quiet, Parent, Alive, At, Unlocked, Early, Tending, Inside
<1> QED
  BY <1>1, <1>2, <1>3, <1>4, <1>5, <1>6, <1>7, <1>8, <1>9, <1>10, <1>11, <1>12, <1>13, <1>14,
     <1>15, <1>16, <1>17, <1>18, <1>19, <1>20, <1>21, <1>22, <1>23, <1>24, <1>25, <1>26

(* Where no Xray is left and no start is under way, or the pid file is     *)
(* removed, nothing is lost.                                               *)
LEMMA EmptyStep ==
  ASSUME (Managed \subseteq loose)',
         \/ pidfile' = Nobody
         \/ \A c \in Caller : caller'[c].pc \notin {"spawned", "unrecorded", "publish", "sleep"}
  PROVE  Children' /\ Forks' /\ NoOrphan' /\ Stops' /\ StoppedMeansNone'
BY DEF Children, Forks, NoOrphan, Stops, StoppedMeansNone, At

(* Steps lose no Xray, and stop leaves none.                               *)
LEMMA XrayStep ==
  ASSUME IInv, Next, caller' \in [Caller -> Invocation], Basis'
  PROVE  Children' /\ Forks' /\ NoOrphan' /\ Stops' /\ StoppedMeansNone'
<1>0. Basis
  BY DEF IInv
<1>q. ASSUME NEW c \in Caller,
             \/ Begin(c) \/ MakeDir(c) \/ DirExists(c) \/ WriteOwner(c) \/ WriteOwnerFails(c)
             \/ SetOwned(c) \/ Wait(c) \/ Refused(c) \/ KillFails(c) \/ AlreadyRunning(c)
             \/ Record(c) \/ RecordFails(c) \/ PublishFails(c) \/ NotStarted(c)
             \/ ReleaseNothing(c) \/ RemoveOwner(c) \/ RemoveOwnerFails(c) \/ RemoveDir(c)
             \/ RemoveDirFails(c) \/ DirGone(c) \/ DirTaken(c) \/ CleanUpNothing(c) \/ CleanUpFails(c) \/ Signal(c)
             \/ ReportStatus(c) \/ FindStale(c) \/ SigKill(c)
             \/ (ChildOutlives(c) /\ At(c, "unpublish"))
      PROVE  Children' /\ Forks' /\ NoOrphan' /\ Stops' /\ StoppedMeansNone'
  BY <1>q, Quiets, QuietStep
<1>e. ASSUME NEW c \in Caller, StopNothing(c) \/ Stopped(c) \/ CannotStart(c)
      PROVE  Children' /\ Forks' /\ NoOrphan' /\ Stops' /\ StoppedMeansNone'
  <2>1. Managed \subseteq loose
    <3>1. CASE StopNothing(c) \/ CannotStart(c)
      BY <3>1, NothingRuns DEF StopNothing, CannotStart
    <3>2. CASE Stopped(c)
      BY <3>2 DEF Stopped, IInv, Stops
    <3> QED  BY <1>e, <3>1, <3>2
  <2>2. UNCHANGED <<proc, start, loose>> /\ pidfile' = Nobody
    BY <1>e DEF StopNothing, Stopped, CannotStart, table, history
  <2> QED  BY <2>1, <2>2, EmptyStep DEF Managed
<1>f. ASSUME NEW c \in Caller, ChildOutlives(c), At(c, "failed")
      PROVE  Children' /\ Forks' /\ NoOrphan' /\ Stops' /\ StoppedMeansNone'
  <2>1. TypeOK /\ Holding /\ Stops
    BY DEF IInv, Basis
  <2>2. Failed(c) /\ UNCHANGED <<proc, start>> /\ loose' = loose \cup {caller[c].target}
    BY <1>f DEF ChildOutlives, At, table
  <2>3. caller[c] \in Invocation
    BY <2>1, CallerType
  <2>4. caller'[c].pc = "release" /\ \A d \in Caller \ {c} : caller'[d] = caller[d]
    <3>1. /\ caller'[c] = [caller[c] EXCEPT !.pc = "release", !.rc = "failed", !.active = FALSE,
                                              !.target = NoProcess]
          /\ \A d \in Caller \ {c} : caller'[d] = caller[d]
      BY <2>1, <2>2, Moved DEF Failed
    <3> QED  BY <2>3, <3>1 DEF Invocation
  <2>5. Managed \ loose \subseteq {caller[c].target}
    BY <1>f, <2>1 DEF Stops, At, Tending
  <2>6. \A d \in Caller : caller'[d].pc \notin {"spawned", "unrecorded", "publish", "sleep"}
    BY <1>f, <2>1, <2>4 DEF Holding, At, Inside
  <2> QED  BY <2>2, <2>5, <2>6, EmptyStep DEF Managed
<1>g. ASSUME NEW c \in Caller, CleanUp(c)
      PROVE  Children' /\ Forks' /\ NoOrphan' /\ Stops' /\ StoppedMeansNone'
  <2> DEFINE child == caller[c].target
  <2>0. /\ TypeOK /\ Children /\ Forks /\ NoOrphan /\ Stops /\ StoppedMeansNone
        /\ caller[c] \in Invocation
    BY CallerType DEF IInv, Basis
  <2>1. /\ caller'[c] = [caller[c] EXCEPT !.pc = "release", !.active = FALSE, !.target = NoProcess]
        /\ \A d \in Caller \ {c} : caller'[d] = caller[d]
    BY <1>g, <2>0, Moved DEF CleanUp
  <2>2. Moves(c, "release", caller[c].op, NoProcess, FALSE, caller[c].owned, caller[c].rc)
    BY <2>0, <2>1 DEF Moves, Invocation
  <2>3. /\ Managed' = Managed \ {child}
        /\ \A p \in Pid : proc'[p] # "free" => proc'[p] = proc[p]
    <3>1. start' = start /\ Terminate(child)
      BY <1>g DEF CleanUp
    <3>2. child \in (Pid \X Nat) \cup {NoProcess}
      BY <2>0 DEF Invocation
    <3>3. CASE Live(child)
      <4>1. proc' = [proc EXCEPT ![child[1]] = "free"] /\ child = <<child[1], start[child[1]]>>
        BY <3>1, <3>2, <3>3 DEF Terminate, KillPid, Live
      <4> QED  BY <2>0, <3>1, <3>2, <4>1 DEF Managed, TypeOK
    <3>4. CASE ~Live(child)
      <4>1. proc' = proc /\ child \notin Managed
        BY <3>1, <3>4, InitAssumption DEF Terminate, Managed, Live, NoProcess
      <4> QED  BY <3>1, <4>1 DEF Managed
    <3> QED  BY <3>3, <3>4
  <2>4. /\ loose \subseteq loose' /\ lock' = lock
        /\ pidfile' = pidfile \/ (pidfile' = Nobody /\ Named \ {child} \subseteq loose')
    BY <1>g DEF CleanUp, lockfiles
  <2>5. Alive(c) /\ ~Parent(c)'
    BY <1>g, <2>2 DEF CleanUp, At, Alive, Parent, Moves
  <2>d. ASSUME NEW d \in Caller, d # c
        PROVE  caller'[d] = caller[d] /\ (Parent(d)' <=> Parent(d)) /\ (Alive(d)' <=> Alive(d))
    <3>1. caller'[d] = caller[d]
      BY <2>1, <2>d
    <3> QED  BY <3>1 DEF Parent, Alive
  <2>6. Children'
    <3> SUFFICES ASSUME NEW d \in Caller, Parent(d)', caller'[d].target \in Managed' \ loose'
                 PROVE  /\ caller'[d].pc \in Tending \cup {"cleanup"} /\ lock' = d
                        /\ Managed' \ loose' = {caller'[d].target}
      BY DEF Children
    <3>1. caller'[d] = caller[d] /\ Parent(d)
      BY <2>5, <2>d
    <3>2. /\ caller[d].pc \in Tending \cup {"cleanup"} /\ lock = d
          /\ Managed \ loose = {caller[d].target}
      BY <2>0, <2>3, <2>4, <3>1 DEF Children
    <3>3. Managed' \ loose' \subseteq Managed \ loose
      BY <2>3, <2>4
    <3> QED  BY <2>4, <3>1, <3>2, <3>3
  <2>7. Forks'
    <3> SUFFICES ASSUME NEW e \in Managed', e \notin loose', proc'[e[1]] = "fork"
                 PROVE  \/ \E d \in Caller : Parent(d)' /\ caller'[d].target = e
                        \/ lock' # Nobody /\ ~Alive(lock)'
      BY DEF Forks
    <3>1. e \in Managed \ loose /\ e # child /\ e[1] \in Pid
      BY <2>0, <2>3, <2>4, ManagedTyped
    <3>2. \/ \E d \in Caller : Parent(d) /\ caller[d].target = e
          \/ lock # Nobody /\ ~Alive(lock)
      BY <2>0, <2>3, <3>1 DEF Forks
    <3>3. ASSUME NEW d \in Caller, Parent(d), caller[d].target = e
          PROVE  Parent(d)' /\ caller'[d].target = e
      BY <2>d, <3>1, <3>3
    <3>4. lock # Nobody /\ ~Alive(lock) => lock' # Nobody /\ ~Alive(lock)'
      BY <2>0, <2>4, <2>5, <2>d DEF TypeOK
    <3> QED  BY <2>4, <3>2, <3>3, <3>4
  <2>8. NoOrphan'
    <3> SUFFICES ASSUME NEW e \in Managed', e \notin loose'
                 PROVE  pidfile' = e[1] \/ \E d \in Caller : Parent(d)' /\ caller'[d].target = e
      BY DEF NoOrphan
    <3>1. e \in Managed \ loose /\ e # child
      BY <2>3, <2>4
    <3>2. pidfile = e[1] \/ \E d \in Caller : Parent(d) /\ caller[d].target = e
      BY <2>0, <3>1 DEF NoOrphan
    <3>3. pidfile = e[1] => pidfile' = e[1]
      BY <2>4, <3>1 DEF Named
    <3>4. ASSUME NEW d \in Caller, Parent(d), caller[d].target = e
          PROVE  Parent(d)' /\ caller'[d].target = e
      BY <2>d, <3>1, <3>4
    <3> QED  BY <3>2, <3>3, <3>4
  <2>9. Stops'
    <3> SUFFICES ASSUME NEW d \in Caller
                 PROVE  /\ caller'[d].pc \in Tending \cup {"kill"}
                             => Managed' \ loose' \subseteq {caller'[d].target}
                        /\ caller'[d].pc = "unpid" => Managed' \subseteq loose'
                        /\ caller'[d].pc \in {"spawned", "unrecorded", "publish"} => pidfile' = Nobody
                        /\ caller'[d].pc = "sleep" => pidfile' \in {Nobody, caller'[d].target[1]}
      BY DEF Stops, At
    <3>1. CASE d = c
      BY <2>2, <3>1 DEF Moves, Tending
    <3>2. CASE d # c
      BY <2>0, <2>2, <2>3, <2>4, <3>2 DEF Moves, Stops, At
    <3> QED  BY <3>1, <3>2
  <2>10. StoppedMeansNone'
    BY <2>0, <2>2, <2>3, <2>4 DEF Moves, StoppedMeansNone
  <2> QED  BY <2>6, <2>7, <2>8, <2>9, <2>10
<1> USE DEF IInv, Phases, Holding, Genuine, FreedLock, Children, Forks, NoOrphan, Stops,
            StoppedMeansNone, Parent, Inside, Early, Unlocked, Tending,
            Basis, TypeOK, Program, NoProcess, At, Alive, Live, GoTo, Return, Leave, Fault, Becomes,
            table, lockfiles, history, Managed, Named, KillPid, Terminate, Entry, AfterStop, Fork,
            Failed, Past, Unproven, GiveUp, Empty, Lost, Killed, Invocation, Running
<1>1. ASSUME NEW c \in Caller,
             Locking(c) \/ Stopping(c) \/ Starting(c) \/ Ending(c) \/ Reporting(c) \/ SigKill(c)
      PROVE  Children' /\ Forks' /\ NoOrphan' /\ Stops' /\ StoppedMeansNone'
  <2>1. CASE StopFound(c)
    BY SMTT(60), <2>1, InitAssumption DEF StopFound
  <2>2. CASE Kill(c)
    BY <2>2, InitAssumption DEF Kill
  <2>3. CASE Spawn(c)
    <3>1. Children'
      BY SMTT(60), <2>3, InitAssumption DEF Spawn
    <3>2. Forks'
      BY SMTT(60), <2>3, InitAssumption DEF Spawn
    <3>3. NoOrphan'
      BY SMTT(60), <2>3, InitAssumption DEF Spawn
    <3>5. Managed \subseteq loose
      BY <2>3, NothingRuns DEF Spawn
    <3>4. Stops' /\ StoppedMeansNone'
      <4>1. PICK p \in Pid :
              Fork(p) /\ Becomes(c, [caller[c] EXCEPT !.pc = "spawned",
                                                     !.target = <<p, start[p] + 1>>])
        BY <2>3 DEF Spawn
      <4>2. /\ caller'[c].pc = "spawned" /\ caller'[c].target = <<p, start[p] + 1>>
            /\ caller'[c].op # "stop"
            /\ \A d \in Caller \ {c} : caller'[d] = caller[d]
        BY SMTT(60), <2>3, <4>1 DEF Spawn
      <4>3. Managed' \subseteq Managed \cup {<<p, start[p] + 1>>} /\ loose' = loose
        BY SMTT(60), <2>3, <4>1 DEF Spawn
      <4>4. lock = c /\ pidfile' = Nobody /\ lock' = lock
        BY <2>3 DEF Spawn
      <4>5. \A d \in Caller \ {c} :
              /\ caller[d].pc \notin Inside
              /\ caller[d].op = "stop" /\ caller[d].rc = "ok" => lock # d
        BY <4>4, <1>0
      <4>6. Managed' \ loose' \subseteq {caller'[c].target}
        BY <3>5, <4>2, <4>3
      <4>7. StoppedMeansNone'
        BY <4>2, <4>5
      <4> QED
        BY <4>2, <4>4, <4>5, <4>6, <4>7
    <3> QED  BY <3>1, <3>2, <3>3, <3>4
  <2>4. CASE KillUnrecorded(c)
    BY SMTT(60), <2>4, InitAssumption DEF KillUnrecorded
  <2>5. CASE Publish(c)
    <3>1. Children'
      BY <2>5, InitAssumption DEF Publish
    <3>2. Forks'
      BY <2>5, InitAssumption DEF Publish
    <3>3. NoOrphan'
      BY <2>5, InitAssumption DEF Publish
    <3>4. Stops' /\ StoppedMeansNone'
      BY <2>5, InitAssumption DEF Publish
    <3> QED  BY <3>1, <3>2, <3>3, <3>4
  <2>6. CASE Started(c)
    <3>1. Children'
      BY <2>6, InitAssumption DEF Started
    <3>2. Forks'
      BY <2>6, InitAssumption DEF Started
    <3>3. NoOrphan'
      BY <2>6, InitAssumption DEF Started
    <3>4. Stops' /\ StoppedMeansNone'
      BY <2>6, InitAssumption DEF Started
    <3> QED  BY <3>1, <3>2, <3>3, <3>4
  <2>7. CASE ChildCleaned(c)
    <3>1. Children'
      BY <2>7, InitAssumption DEF ChildCleaned
    <3>2. Forks'
      BY <2>7, InitAssumption DEF ChildCleaned
    <3>3. NoOrphan'
      BY <2>7, InitAssumption DEF ChildCleaned
    <3>4. Stops' /\ StoppedMeansNone'
      BY <2>7, InitAssumption DEF ChildCleaned
    <3> QED  BY <3>1, <3>2, <3>3, <3>4
  <2>8. CASE RemoveStale(c)
    BY SMTT(60), <2>8, InitAssumption DEF RemoveStale
  <2> QED
    BY <1>1, <1>q, <1>e, <1>f, <1>g, <2>1, <2>2, <2>3, <2>4, <2>5, <2>6, <2>7, <2>8
       DEF Locking, Stopping, Starting, Ending, Reporting, ChildOutlives
<1>2. CASE Reboot
  <2>1. \A p \in Pid : proc'[p] = "free"
    BY <1>2 DEF Reboot
  <2>2. Managed' = {}
    BY <2>1
  <2>3. \A d \in Caller : caller'[d].pc \in {"new", "done"}
    <3>1. TypeOK
      BY <1>0
    <3>2. \A d \in Caller : caller'[d] = IF Alive(d) THEN Killed(d) ELSE caller[d]
      BY <1>2 DEF Reboot
    <3>3. \A d \in Caller : ~Alive(d) => caller[d].pc \in {"new", "done"}
      BY <3>1, CallerType
    <3> HIDE DEF Killed, Alive
    <3> QED  BY <3>1, <3>2, <3>3, KilledShape
  <2> QED  BY <2>2, <2>3
<1>3. CASE RemoveLock
  BY <1>3, InitAssumption DEF RemoveLock
<1>4. CASE \E p \in Pid : Exec(p) \/ Die(p) \/ Reuse(p)
  <2>1. PICK p \in Pid : Exec(p) \/ Die(p) \/ Reuse(p)
    BY <1>4
  <2>2. CASE Exec(p)
    BY <2>2, InitAssumption DEF Exec
  <2>3. CASE Die(p)
    BY <2>3, InitAssumption DEF Die
  <2>4. CASE Reuse(p)
    BY <2>4, InitAssumption DEF Reuse
  <2> QED  BY <2>1, <2>2, <2>3, <2>4
<1> QED
  BY <1>1, <1>2, <1>3, <1>4 DEF Next, Router

-----------------------------------------------------------------------------
(* Theorems *)

(* At first no invocation has begun and no process runs.                   *)
LEMMA InitIInv == Init => IInv
<1> SUFFICES ASSUME Init
             PROVE  IInv
  OBVIOUS
<1> USE DEF Init, Fresh, NoProcess
<1>1. \A c \in Caller : caller[c] = Fresh
  OBVIOUS
<1>2. Fresh \in Invocation
  BY DEF Invocation, Label, Status
<1>3. TypeOK
  <2>1. \A c \in Caller : caller[c].active => caller[c].target # NoProcess
    BY <1>1
  <2>2. caller \in [Caller -> Invocation]
    BY <1>2
  <2>3. litter \in BOOLEAN
    OBVIOUS
  <2>4. /\ proc \in [Pid -> Program] /\ start \in [Pid -> Nat]
        /\ lock \in Caller \cup {Nobody} /\ owner \in Caller \cup {Nobody}
        /\ pidfile \in Pid \cup {Nobody} /\ loose \subseteq Pid \X Nat
        /\ victims \subseteq {"checked", "unrecorded"} /\ faults \in 0..MaxFaults
    BY InitAssumption DEF Program
  <2> HIDE DEF Init
  <2> QED  BY <2>1, <2>2, <2>3, <2>4 DEF TypeOK
<1>4. Phases /\ Holding /\ Genuine /\ FreedLock /\ NoForeignKill
  BY <1>1, InitAssumption
     DEF Phases, Holding, Genuine, FreedLock, NoForeignKill, Unlocked, Inside, Early, Tending, At
<1>5. Managed = {}
  BY DEF Managed
<1>6. Children /\ Forks /\ NoOrphan /\ Stops /\ StoppedMeansNone
  BY <1>1, <1>5 DEF Children, Forks, NoOrphan, Stops, StoppedMeansNone, Tending, At
<1> QED
  BY <1>3, <1>4, <1>6 DEF IInv, Basis

(* Every step keeps the inductive invariant.                                *)
LEMMA NextIInv == IInv /\ [Next]_vars => IInv'
<1> SUFFICES ASSUME IInv, [Next]_vars
             PROVE  IInv'
  OBVIOUS
<1>1. CASE Next
  <2>1. TypeOK
    BY DEF IInv, Basis
  <2>2. caller' \in [Caller -> Invocation]
    BY <1>1, <2>1, NextTyped
  <2>3. Plain'
    BY <1>1, PlainStep
  <2>4. Phases' /\ Holding' /\ Genuine' /\ FreedLock' /\ NoForeignKill' /\ Flags'
    BY <1>1, <2>2, BasisStep
  <2>5. TypeOK'
    <3>1. Plain' /\ Flags'
      BY <2>3, <2>4
    <3>2. litter' \in BOOLEAN
      BY <3>1 DEF Plain
    <3> QED  BY <2>2, <3>1, <3>2, SMT DEF TypeOK, Plain, Flags
  <2>6. Basis'
    BY <2>4, <2>5 DEF Basis
  <2> QED
    BY <1>1, <2>2, <2>6, XrayStep DEF IInv
<1>2. CASE UNCHANGED vars
  BY <1>2 DEF vars, IInv, Basis, TypeOK, Phases, Holding, Genuine, FreedLock, NoForeignKill,
              Children, Forks, NoOrphan, Stops, StoppedMeansNone, At, Alive, Parent, Managed
<1> QED
  BY <1>1, <1>2

(* The inductive invariant holds in every reachable state of the script.    *)
THEOREM IInvHolds == Spec => []IInv
BY InitIInv, NextIInv, PTL DEF Spec

(* The types of XrayInit; a child that is marked as active is a process.   *)
THEOREM TypeCorrect == Spec => []TypeOK
<1>1. IInv => TypeOK
  BY DEF IInv, Basis
<1> QED  BY <1>1, IInvHolds, PTL

(* lock(): mkdir decides, and stale or unclear locks are never broken; so  *)
(* no two invocations work at once, however many there are.                *)
THEOREM LockExcludes == Spec => []MutualExclusion
<1>1. IInv => MutualExclusion
  BY DEF IInv, Basis, Holding, MutualExclusion
<1> QED  BY <1>1, IInvHolds, PTL

(* release_lock and the traps: an invocation that still owns the lock when *)
(* it ends has said so with exit 3, or was killed.                         *)
THEOREM LockFreed == Spec => []FreedLock
<1>1. IInv => FreedLock
  BY DEF IInv, Basis
<1> QED  BY <1>1, IInvHolds, PTL

(* pid_epoch_matches_xray, direct_child_epoch_alive: no pid that was       *)
(* checked has gone to someone else.                                       *)
THEOREM KillsOnlyItsOwn == Spec => []NoForeignKill
<1>1. IInv => NoForeignKill
  BY DEF IInv, Basis
<1> QED  BY <1>1, IInvHolds, PTL

(* start_unlocked, cleanup_active_child: an Xray that is not lost has a    *)
(* pid file or a parent.                                                   *)
THEOREM XrayAccounted == Spec => []NoOrphan
<1>1. IInv => NoOrphan
  BY DEF IInv
<1> QED  BY <1>1, IInvHolds, PTL

(* start_unlocked: at most one Xray, beside lost ones, runs at any time.   *)
THEOREM OneXray == Spec => []AtMostOneXray
<1>1. IInv => AtMostOneXray
  <2> SUFFICES ASSUME IInv, NEW e \in Managed \ loose, NEW f \in Managed \ loose
               PROVE  e = f
    BY DEF AtMostOneXray
  <2>1. CASE pidfile = e[1] /\ pidfile = f[1]
    <3>1. PICK p \in Pid : e = <<p, start[p]>>
      BY DEF Managed
    <3>2. PICK q \in Pid : f = <<q, start[q]>>
      BY DEF Managed
    <3> QED  BY <2>1, <3>1, <3>2 DEF IInv
  <2>2. ASSUME NEW c \in Caller, Parent(c), caller[c].target \in {e, f}
        PROVE  e = f
    BY <2>2 DEF IInv, Children
  <2> QED
    BY <2>1, <2>2 DEF IInv, NoOrphan
<1> QED  BY <1>1, IInvHolds, PTL

(* stop_unlocked: success means that no Xray is left but lost ones.        *)
THEOREM StopStops == Spec => []StoppedMeansNone
<1>1. IInv => StoppedMeansNone
  BY DEF IInv
<1> QED  BY <1>1, IInvHolds, PTL
=============================================================================
