------------------------------ MODULE XrayInit ------------------------------
(***************************************************************************)
(* templates/S23xray-direct: start, stop, restart and status, each called  *)
(* once by some invocation of the script, all sharing the lock directory,  *)
(* its owner file and the pid file.  Between two steps of an invocation    *)
(* others run, a signal reaches its traps, it is killed, a pid changes     *)
(* hands or the router restarts, which leaves the files as they were.      *)
(* A check of a process and the kill that follows it are one step; so are  *)
(* the TERM, the KILL and the bounded waits between them.                  *)
(***************************************************************************)
EXTENDS Naturals

CONSTANTS
  Caller,    \* invocations of the script; each has a pid and a start time of its own
  Pid,       \* process ids an Xray may get
  Nobody,    \* no owner, no pid, no process
  MaxFaults  \* bound on signals, kills, restarts, failing commands and foreign processes

ASSUME InitAssumption ==
  /\ Nobody \notin Caller \cup Pid
  /\ MaxFaults \in Nat

VARIABLES
  proc,     \* what runs under a pid
  start,    \* its start time: with the pid, its epoch
  lock,     \* LOCKDIR exists, made by this invocation
  owner,    \* LOCKDIR/owner
  litter,   \* a temporary file was left in LOCKDIR
  pidfile,  \* PIDFILE
  caller,   \* the invocations
  loose,    \* epochs of Xray the script has lost, in a way described where it happens
  victims,  \* how processes that are not the script's came to be killed
  faults

vars == <<proc, start, lock, owner, litter, pidfile, caller, loose, victims, faults>>
table == <<proc, start>>
lockfiles == <<lock, owner, litter>>
history == <<loose, victims>>

(* "fork" is the shell that has not become Xray yet: proc/exe differs.     *)
Program == {"free", "fork", "xray", "other"}

NoProcess == <<Nobody, 0>>

(* "unproven" is exit 3 of start, stop and restart, "down" that of status. *)
Status == {"none", "ok", "failed", "unproven", "signal", "killed", "down"}

Label == {"new", "lock", "own", "owned", "inspect", "stop", "kill", "unpid", "start", "spawned",
          "unrecorded", "publish", "sleep", "unpublish", "failed", "status", "unlink",
          "release", "rmdir", "removed", "cleanup", "done"}

Invocation ==
  [pc : Label, op : {"start", "stop", "restart", "status"},
   way : {"normal", "trap"},                    \* in the command, or in a trap
   target : (Pid \X Nat) \cup {NoProcess},      \* child, child_start; pid, start of a stop
   active : BOOLEAN,                            \* ACTIVE_CHILD_PID is the target
   owned : BOOLEAN,                             \* LOCK_OWNED
   rc : Status]

Alive(c) == caller[c].pc \notin {"new", "done"}

(* An active child is a process.                                           *)
TypeOK ==
  /\ proc \in [Pid -> Program] /\ start \in [Pid -> Nat]
  /\ lock \in Caller \cup {Nobody} /\ owner \in Caller \cup {Nobody} /\ litter \in BOOLEAN
  /\ pidfile \in Pid \cup {Nobody}
  /\ caller \in [Caller -> Invocation]
  /\ \A c \in Caller : caller[c].active => caller[c].target # NoProcess
  /\ loose \subseteq Pid \X Nat
  /\ victims \subseteq {"checked", "unrecorded"}
  /\ faults \in 0..MaxFaults

Fault == faults < MaxFaults /\ faults' = faults + 1

At(c, label) == caller[c].pc = label
Becomes(c, inv) == caller' = [caller EXCEPT ![c] = inv]
GoTo(c, label) == Becomes(c, [caller[c] EXCEPT !.pc = label])
Return(c, label, status) == Becomes(c, [caller[c] EXCEPT !.pc = label, !.rc = status])

(* exit: the EXIT trap takes over.                                         *)
Leave(c, status) ==
  Becomes(c, [caller[c] EXCEPT !.pc = "cleanup", !.way = "trap", !.rc = status])

(* Mutant: a pid is taken for the process it was.                          *)
LiveByNumber(e) == e # NoProcess /\ proc[e[1]] # "free"

Live(e) == e # NoProcess /\ proc[e[1]] # "free" /\ start[e[1]] = e[2]

(* Every Xray of the script, its shell before exec included.               *)
Managed == {<<p, start[p]>> : p \in {q \in Pid : proc[q] \in {"fork", "xray"}}}

Running(p) == p # Nobody /\ proc[p] = "xray"

Named == {e \in Managed : e[1] = pidfile}

KillPid(p, how) ==
  /\ proc' = [proc EXCEPT ![p] = "free"]
  /\ victims' = IF proc[p] = "other" THEN victims \cup {how} ELSE victims

(* The epoch is compared right before TERM and right before KILL.          *)
Terminate(e) == IF Live(e) THEN KillPid(e[1], "checked") ELSE UNCHANGED <<proc, victims>>

-----------------------------------------------------------------------------
(* The lock *)

Begin(c) ==
  /\ At(c, "new")
  /\ \E op \in {"start", "stop", "restart", "status"} :
       Becomes(c, [caller[c] EXCEPT !.op = op, !.pc = IF op = "status" THEN "status" ELSE "lock"])
  /\ UNCHANGED <<table, lockfiles, pidfile, history, faults>>

MakeDir(c) ==
  /\ At(c, "lock") /\ lock = Nobody
  /\ lock' = c
  /\ GoTo(c, "own")
  /\ UNCHANGED <<table, owner, litter, pidfile, history, faults>>

DirExists(c) ==
  /\ At(c, "lock") /\ lock # Nobody
  /\ GoTo(c, "inspect")
  /\ UNCHANGED <<table, lockfiles, pidfile, history, faults>>

WriteOwner(c) ==
  /\ At(c, "own")
  /\ owner' = c
  /\ GoTo(c, "owned")
  /\ UNCHANGED <<table, lock, litter, pidfile, history, faults>>

(* A write that fails may leave its temporary file, and rmdir then fails.  *)
WriteOwnerFails(c) ==
  /\ At(c, "own") /\ Fault
  /\ \/ litter' = TRUE /\ lock' = lock
     \/ litter' = FALSE /\ lock' = Nobody
  /\ Leave(c, "failed")
  /\ UNCHANGED <<table, owner, pidfile, history>>

Entry(c) == IF caller[c].op = "start" THEN "start" ELSE "stop"

SetOwned(c) ==
  /\ At(c, "owned")
  /\ Becomes(c, [caller[c] EXCEPT !.owned = TRUE, !.pc = Entry(c)])
  /\ UNCHANGED <<table, lockfiles, pidfile, history, faults>>

OwnerAlive == owner # Nobody /\ Alive(owner)

(* Busy: wait a second, or give up after the twentieth.                    *)
Wait(c) ==
  /\ At(c, "inspect") /\ OwnerAlive
  /\ \/ GoTo(c, "lock")
     \/ Leave(c, "failed")
  /\ UNCHANGED <<table, lockfiles, pidfile, history, faults>>

(* Mutant: a lock without a live owner is taken over.                      *)
RefusedTakesOver(c) ==
  /\ At(c, "inspect") /\ ~OwnerAlive
  /\ lock' = c /\ owner' = Nobody
  /\ GoTo(c, "own")
  /\ UNCHANGED <<table, litter, pidfile, history, faults>>

(* Stale, unclear, or released since: an error, and nothing is removed.    *)
Refused(c) ==
  /\ At(c, "inspect") /\ ~OwnerAlive
  /\ Leave(c, "failed")
  /\ UNCHANGED <<table, lockfiles, pidfile, history, faults>>

-----------------------------------------------------------------------------
(* stop_unlocked *)

AfterStop(c) == IF caller[c].op = "restart" THEN "start" ELSE "release"

StopNothing(c) ==
  /\ At(c, "stop") /\ ~Running(pidfile)
  /\ pidfile' = Nobody
  /\ Return(c, AfterStop(c), "ok")
  /\ UNCHANGED <<table, lockfiles, history, faults>>

StopFound(c) ==
  /\ At(c, "stop") /\ Running(pidfile)
  /\ Becomes(c, [caller[c] EXCEPT !.pc = "kill", !.target = <<pidfile, start[pidfile]>>])
  /\ UNCHANGED <<table, lockfiles, pidfile, history, faults>>

Kill(c) ==
  /\ At(c, "kill")
  /\ Terminate(caller[c].target)
  /\ GoTo(c, "unpid")
  /\ UNCHANGED <<start, lockfiles, pidfile, loose, faults>>

(* Mutant: the last look at the process is missing.                        *)
KillFailsUnnoticed(c) ==
  /\ At(c, "kill") /\ Live(caller[c].target) /\ Fault
  /\ GoTo(c, "unpid")
  /\ UNCHANGED <<table, lockfiles, pidfile, history>>

(* It outlives the KILL and the wait.                                      *)
KillFails(c) ==
  /\ At(c, "kill") /\ Live(caller[c].target) /\ Fault
  /\ Return(c, "release", "failed")
  /\ UNCHANGED <<table, lockfiles, pidfile, history>>

Stopped(c) ==
  /\ At(c, "unpid")
  /\ pidfile' = Nobody
  /\ Becomes(c, [caller[c] EXCEPT !.pc = AfterStop(c), !.rc = "ok", !.target = NoProcess])
  /\ UNCHANGED <<table, lockfiles, history, faults>>

-----------------------------------------------------------------------------
(* start_unlocked *)

AlreadyRunning(c) ==
  /\ At(c, "start") /\ Running(pidfile)
  /\ Return(c, "release", "ok")
  /\ UNCHANGED <<table, lockfiles, pidfile, history, faults>>

(* No binary or no configuration.                                          *)
CannotStart(c) ==
  /\ At(c, "start") /\ ~Running(pidfile) /\ Fault
  /\ pidfile' = Nobody
  /\ Return(c, "release", "failed")
  /\ UNCHANGED <<table, lockfiles, history>>

Fork(p) ==
  /\ proc[p] = "free"
  /\ proc' = [proc EXCEPT ![p] = "fork"]
  /\ start' = [start EXCEPT ![p] = @ + 1]

(* Mutant: an Xray that runs already is not looked for.                    *)
SpawnAnother(c) ==
  /\ At(c, "start")
  /\ pidfile' = Nobody
  /\ \E p \in Pid :
       /\ Fork(p)
       /\ Becomes(c, [caller[c] EXCEPT !.pc = "spawned", !.target = <<p, start[p] + 1>>])
  /\ UNCHANGED <<lockfiles, history, faults>>

Spawn(c) ==
  /\ At(c, "start") /\ ~Running(pidfile)
  /\ pidfile' = Nobody
  /\ \E p \in Pid :
       /\ Fork(p)
       /\ Becomes(c, [caller[c] EXCEPT !.pc = "spawned", !.target = <<p, start[p] + 1>>])
  /\ UNCHANGED <<lockfiles, history, faults>>

Record(c) ==
  /\ At(c, "spawned") /\ Live(caller[c].target)
  /\ Becomes(c, [caller[c] EXCEPT !.pc = "publish", !.active = TRUE])
  /\ UNCHANGED <<table, lockfiles, pidfile, history, faults>>

(* The start time cannot be read: the child has ended, or a read fails.    *)
RecordFails(c) ==
  /\ At(c, "spawned")
  /\ \/ ~Live(caller[c].target) /\ UNCHANGED faults
     \/ Fault
  /\ GoTo(c, "unrecorded")
  /\ UNCHANGED <<table, lockfiles, pidfile, history>>

(* The one kill by number: no epoch is known to check.                     *)
KillUnrecorded(c) ==
  /\ At(c, "unrecorded")
  /\ KillPid(caller[c].target[1], "unrecorded")
  /\ Becomes(c, [caller[c] EXCEPT !.pc = "release", !.rc = "failed", !.target = NoProcess])
  /\ UNCHANGED <<start, lockfiles, pidfile, loose, faults>>

Publish(c) ==
  /\ At(c, "publish")
  /\ pidfile' = caller[c].target[1]
  /\ GoTo(c, "sleep")
  /\ UNCHANGED <<table, lockfiles, history, faults>>

PublishFails(c) ==
  /\ At(c, "publish") /\ Fault
  /\ litter' \in {litter, TRUE}
  /\ GoTo(c, "unpublish")
  /\ UNCHANGED <<table, lock, owner, pidfile, history>>

(* Two seconds later.                                                      *)
Started(c) ==
  /\ At(c, "sleep") /\ Running(caller[c].target[1]) /\ Running(pidfile)
  /\ Becomes(c, [caller[c] EXCEPT !.pc = "release", !.rc = "ok", !.active = FALSE,
              !.target = NoProcess])
  /\ UNCHANGED <<table, lockfiles, pidfile, history, faults>>

NotStarted(c) ==
  /\ At(c, "sleep") /\ ~(Running(caller[c].target[1]) /\ Running(pidfile))
  /\ GoTo(c, "failed")
  /\ UNCHANGED <<table, lockfiles, pidfile, history, faults>>

Failed(c) ==
  Becomes(c, [caller[c] EXCEPT !.pc = "release", !.rc = "failed", !.active = FALSE,
              !.target = NoProcess])

(* terminate_direct_child after a publication or a start that failed.      *)
ChildCleaned(c) ==
  /\ caller[c].pc \in {"unpublish", "failed"}
  /\ Terminate(caller[c].target)
  /\ pidfile' = IF At(c, "failed") THEN Nobody ELSE pidfile
  /\ Failed(c)
  /\ UNCHANGED <<start, lockfiles, loose, faults>>

(* The child outlives it and is lost: after a failed publication it stays  *)
(* in ACTIVE_CHILD_PID, to be tried again once the lock is free.           *)
ChildOutlives(c) ==
  /\ caller[c].pc \in {"unpublish", "failed"}
  /\ Live(caller[c].target) /\ Fault
  /\ loose' = loose \cup {caller[c].target}
  /\ \/ At(c, "unpublish") /\ Return(c, "release", "failed") /\ UNCHANGED pidfile
     \/ /\ At(c, "failed") /\ Failed(c)
        /\ pidfile' = IF pidfile = caller[c].target[1] THEN Nobody ELSE pidfile
  /\ UNCHANGED <<table, lockfiles, victims>>

-----------------------------------------------------------------------------
(* release_lock and the traps *)

(* The command has released the lock, or failed to: the EXIT trap.  A trap *)
(* has: the script ends.                                                   *)
Past(c) == IF caller[c].way = "normal" THEN "cleanup" ELSE "done"

Unproven(c) ==
  Becomes(c, [caller[c] EXCEPT !.pc = Past(c), !.way = "trap", !.rc = "unproven"])

GiveUp(c) == Becomes(c, [caller[c] EXCEPT !.pc = Past(c), !.way = "trap", !.owned = FALSE])

(* Nothing is owned, or what was owned is gone.                            *)
ReleaseNothing(c) ==
  /\ At(c, "release") /\ (~caller[c].owned \/ lock = Nobody)
  /\ GiveUp(c)
  /\ UNCHANGED <<table, lockfiles, pidfile, history, faults>>

RemoveOwner(c) ==
  /\ At(c, "release") /\ caller[c].owned /\ owner = c
  /\ owner' = Nobody
  /\ GoTo(c, "rmdir")
  /\ UNCHANGED <<table, lock, litter, pidfile, history, faults>>

(* The owner file is not this invocation's any more, or cannot be removed. *)
RemoveOwnerFails(c) ==
  /\ At(c, "release") /\ caller[c].owned /\ lock # Nobody
  /\ \/ owner # c /\ UNCHANGED faults
     \/ Fault
  /\ Unproven(c)
  /\ UNCHANGED <<table, lockfiles, pidfile, history>>

Empty == owner = Nobody /\ ~litter

RemoveDir(c) ==
  /\ At(c, "rmdir") /\ Empty
  /\ lock' = Nobody
  /\ GoTo(c, "removed")
  /\ UNCHANGED <<table, owner, litter, pidfile, history, faults>>

RemoveDirFails(c) ==
  /\ At(c, "rmdir")
  /\ \/ ~Empty /\ UNCHANGED faults
     \/ Fault
  /\ Unproven(c)
  /\ UNCHANGED <<table, lockfiles, pidfile, history>>

(* The last look: LOCK_OWNED is cleared only if no LOCKDIR is there.       *)
DirGone(c) ==
  /\ At(c, "removed") /\ lock = Nobody
  /\ GiveUp(c)
  /\ UNCHANGED <<table, lockfiles, pidfile, history, faults>>

(* Another invocation has made it since: an error, with the lock still     *)
(* marked as owned.                                                        *)
DirTaken(c) ==
  /\ At(c, "removed") /\ lock # Nobody
  /\ Unproven(c)
  /\ UNCHANGED <<table, lockfiles, pidfile, history, faults>>

(* Mutant: the child is not cleaned up.                                    *)
CleanUpLockOnly(c) ==
  /\ At(c, "cleanup") /\ caller[c].active
  /\ Becomes(c, [caller[c] EXCEPT !.pc = "release", !.active = FALSE, !.target = NoProcess])
  /\ UNCHANGED <<table, lockfiles, pidfile, history, faults>>

(* cleanup_active_child in a trap.  remove_active_pidfile compares numbers *)
(* only: without the lock, the number may be a new Xray's.                 *)
CleanUp(c) ==
  /\ At(c, "cleanup") /\ caller[c].active
  /\ Terminate(caller[c].target)
  /\ pidfile' = IF pidfile = caller[c].target[1] THEN Nobody ELSE pidfile
  /\ loose' = IF pidfile = caller[c].target[1] THEN loose \cup (Named \ {caller[c].target})
                                               ELSE loose
  /\ Becomes(c, [caller[c] EXCEPT !.pc = "release", !.active = FALSE, !.target = NoProcess])
  /\ UNCHANGED <<start, lockfiles, faults>>

CleanUpNothing(c) ==
  /\ At(c, "cleanup") /\ ~caller[c].active
  /\ GoTo(c, "release")
  /\ UNCHANGED <<table, lockfiles, pidfile, history, faults>>

(* It outlives that too.  The EXIT trap keeps a status that is not 0.      *)
CleanUpFails(c) ==
  /\ At(c, "cleanup") /\ caller[c].active /\ Live(caller[c].target) /\ Fault
  /\ loose' = loose \cup {caller[c].target}
  /\ Return(c, "release", IF caller[c].rc = "failed" THEN "failed" ELSE "unproven")
  /\ UNCHANGED <<table, lockfiles, pidfile, victims>>

(* What is lost with an invocation: a child it has neither recorded nor    *)
(* published.                                                              *)
Lost(c) == IF Live(caller[c].target) /\ pidfile # caller[c].target[1]
           THEN {caller[c].target} ELSE {}

(* INT, TERM or HUP, between two commands.                                 *)
Signal(c) ==
  /\ Alive(c) /\ Fault
  /\ Becomes(c, [caller[c] EXCEPT !.pc = "cleanup", !.way = "trap", !.rc = "signal",
              !.target = IF caller[c].pc \in {"kill", "unpid"} THEN NoProcess ELSE @])
  /\ loose' = IF caller[c].active THEN loose ELSE loose \cup Lost(c)
  /\ litter' \in {litter} \cup (IF caller[c].pc \in {"own", "publish"} THEN {TRUE} ELSE {})
  /\ UNCHANGED <<table, lock, owner, pidfile, victims>>

-----------------------------------------------------------------------------
(* status, which takes no lock *)

ReportStatus(c) ==
  /\ At(c, "status") /\ (pidfile = Nobody \/ Running(pidfile))
  /\ Leave(c, IF Running(pidfile) THEN "ok" ELSE "down")
  /\ UNCHANGED <<table, lockfiles, pidfile, history, faults>>

FindStale(c) ==
  /\ At(c, "status") /\ pidfile # Nobody /\ ~Running(pidfile)
  /\ GoTo(c, "unlink")
  /\ UNCHANGED <<table, lockfiles, pidfile, history, faults>>

(* cleanup_stale_pid removes what is there by now: the Xray of a start     *)
(* that came between loses its pid file.                                   *)
RemoveStale(c) ==
  /\ At(c, "unlink")
  /\ pidfile' = Nobody
  /\ loose' = loose \cup Named
  /\ Leave(c, "down")
  /\ UNCHANGED <<table, lockfiles, victims, faults>>

-----------------------------------------------------------------------------
(* Everything else on the router *)

Exec(p) ==
  /\ proc[p] = "fork"
  /\ proc' = [proc EXCEPT ![p] = "xray"]
  /\ UNCHANGED <<start, lockfiles, pidfile, caller, history, faults>>

Die(p) ==
  /\ proc[p] # "free"
  /\ proc' = [proc EXCEPT ![p] = "free"]
  /\ UNCHANGED <<start, lockfiles, pidfile, caller, history, faults>>

(* A process of someone else gets the pid.                                 *)
Reuse(p) ==
  /\ proc[p] = "free" /\ Fault
  /\ proc' = [proc EXCEPT ![p] = "other"]
  /\ start' = [start EXCEPT ![p] = @ + 1]
  /\ UNCHANGED <<lockfiles, pidfile, caller, history>>

Killed(c) ==
  [caller[c] EXCEPT !.pc = "done", !.rc = "killed", !.active = FALSE, !.target = NoProcess]

SigKill(c) ==
  /\ Alive(c) /\ Fault
  /\ Becomes(c, Killed(c))
  /\ loose' = loose \cup Lost(c)
  /\ litter' \in {litter} \cup (IF caller[c].pc \in {"own", "publish"} THEN {TRUE} ELSE {})
  /\ UNCHANGED <<table, lock, owner, pidfile, victims>>

Reboot ==
  /\ Fault
  /\ proc' = [p \in Pid |-> "free"]
  /\ caller' = [c \in Caller |-> IF Alive(c) THEN Killed(c) ELSE caller[c]]
  /\ UNCHANGED <<start, lockfiles, pidfile, history>>

(* The operator inspects the lock and removes it: no invocation runs, and  *)
(* no shell is still on its way to becoming Xray.                          *)
RemoveLock ==
  /\ lock # Nobody
  /\ \A c \in Caller : ~Alive(c)
  /\ \A p \in Pid : proc[p] # "fork"
  /\ lock' = Nobody /\ owner' = Nobody /\ litter' = FALSE
  /\ UNCHANGED <<table, pidfile, caller, history, faults>>

-----------------------------------------------------------------------------
Fresh == [pc |-> "new", op |-> "start", way |-> "normal", target |-> NoProcess,
          active |-> FALSE, owned |-> FALSE, rc |-> "none"]

Init ==
  /\ proc = [p \in Pid |-> "free"] /\ start = [p \in Pid |-> 0]
  /\ lock = Nobody /\ owner = Nobody /\ litter = FALSE
  /\ pidfile \in Pid \cup {Nobody}
  /\ caller = [c \in Caller |-> Fresh]
  /\ loose = {} /\ victims = {} /\ faults = 0

Locking(c) ==
  Begin(c) \/ MakeDir(c) \/ DirExists(c) \/ WriteOwner(c) \/ WriteOwnerFails(c) \/ SetOwned(c)
    \/ Wait(c) \/ Refused(c)

Stopping(c) == StopNothing(c) \/ StopFound(c) \/ Kill(c) \/ KillFails(c) \/ Stopped(c)

Starting(c) ==
  AlreadyRunning(c) \/ CannotStart(c) \/ Spawn(c) \/ Record(c) \/ RecordFails(c)
    \/ KillUnrecorded(c) \/ Publish(c) \/ PublishFails(c) \/ Started(c) \/ NotStarted(c)
    \/ ChildCleaned(c) \/ ChildOutlives(c)

Ending(c) ==
  ReleaseNothing(c) \/ RemoveOwner(c) \/ RemoveOwnerFails(c) \/ RemoveDir(c) \/ RemoveDirFails(c)
    \/ DirGone(c) \/ DirTaken(c) \/ CleanUp(c) \/ CleanUpNothing(c) \/ CleanUpFails(c) \/ Signal(c)

Reporting(c) == ReportStatus(c) \/ FindStale(c) \/ RemoveStale(c)

Router == Reboot \/ RemoveLock \/ \E p \in Pid : Exec(p) \/ Die(p) \/ Reuse(p)

Next ==
  \/ \E c \in Caller : Locking(c) \/ Stopping(c) \/ Starting(c) \/ Ending(c) \/ Reporting(c)
                         \/ SigKill(c)
  \/ Router

Spec == Init /\ [][Next]_vars

-----------------------------------------------------------------------------
(* Properties *)

Inside == {"owned", "stop", "kill", "unpid", "start", "spawned", "unrecorded", "publish", "sleep",
           "unpublish", "failed"}

(* lock: whatever the interleaving, the kills and the files left by them,  *)
(* no two invocations are in start_unlocked or stop_unlocked at once.      *)
MutualExclusion ==
  \A c, d \in Caller : caller[c].pc \in Inside /\ caller[d].pc \in Inside => c = d

(* The target is a child it must publish or end.                           *)
Parent(c) == Alive(c) /\ (caller[c].active \/ caller[c].pc \in {"spawned", "unrecorded"})

(* start_unlocked and the traps: an Xray is named by the pid file or is    *)
(* the child of an invocation that is about to publish or to end it;       *)
(* otherwise it is one of those known to be lost.                          *)
NoOrphan ==
  \A e \in Managed \ loose :
    pidfile = e[1] \/ \E c \in Caller : Parent(c) /\ caller[c].target = e

(* start, restart: the script never starts an Xray beside another one      *)
(* that it has not lost.                                                   *)
AtMostOneXray == \A e, f \in Managed \ loose : e = f

(* stop: when it reports success, and until it gives the lock away, no     *)
(* Xray of the script runs, except those known to be lost.                 *)
StoppedMeansNone ==
  \A c \in Caller :
    caller[c].op = "stop" /\ caller[c].rc = "ok" /\ lock = c => Managed \subseteq loose

(* pid_epoch_matches_xray, direct_child_epoch_alive: a process that is not *)
(* the script's is never killed where a pid is checked before the kill.    *)
NoForeignKill == "checked" \notin victims

(* release_lock: an invocation that ends with LOCK_OWNED set, its own lock *)
(* left behind or another's found, says so with exit 3, unless killed.     *)
FreedLock ==
  \A c \in Caller :
    At(c, "done") /\ caller[c].owned => caller[c].rc \in {"unproven", "killed"}

=============================================================================
