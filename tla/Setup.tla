-------------------------------- MODULE Setup --------------------------------
(***************************************************************************)
(* "routerkit setup" and "routerkit install" (scripts/routerkit.py): a     *)
(* private workspace for the profiles, two children that fill and read it  *)
(* under SetupSignalLifecycle, and the public stages, of which bootstrap   *)
(* and autostart run under SetupBootstrapSupervisor.                       *)
(*                                                                         *)
(* SIGTERM and SIGHUP are one signal here; SIGINT is KeyboardInterrupt     *)
(* wherever no handler of the program is installed for it.                 *)
(***************************************************************************)
EXTENDS Naturals, SequencesExt

CONSTANTS
  Options,     \* the command lines that may be given
  MaxFaults    \* bound on failures, signals, interrupts and kills

Modes == {"source", "wizard", "reuse"}
Command == [install : BOOLEAN, mode : Modes, apply : BOOLEAN, bootstrap : BOOLEAN,
            autostart : BOOLEAN, skip : SUBSET {"preflight", "backup", "healthcheck"}]

(* Combinations that validate_setup_args and validate_install_args refuse. *)
Valid(o) ==
  /\ o.bootstrap \/ o.autostart \/ o.skip # {} => o.apply
  /\ o.install => ~o.bootstrap /\ ~(o.autostart /\ "healthcheck" \in o.skip)
  /\ ~o.install => o.skip = {}

ASSUME SetupAssumption ==
  /\ Options \subseteq {o \in Command : Valid(o)} /\ MaxFaults \in Nat

VARIABLES
  opt,        \* the command line of this run
  workspace,  \* the private directory: "none", "empty", or holding "profiles"
  child,      \* the child this run has started: its stage, or "none"
  known,      \* the parent has the handle of its child
  told,       \* a signal has been sent to the child
  status,     \* what the child that ended returned: "none", "ok" or "bad"
  stray,      \* stages whose processes survive a run that is gone
  pc, next,   \* the run's next step; the stage it works on
  todo,       \* the public stages still to run
  done,       \* those that have succeeded in this run
  phase,      \* the phase of the handlers of SetupSignalLifecycle
  asked,      \* a signal has been noted (requested_signum, first_signal)
  held,       \* a signal is blocked, or waits for a child to be known
  unsure,     \* supervision has failed once
  code,       \* the exit code so far, or the exception that is on its way out
  warned,     \* the cleanup failed, and said so
  exit,       \* how the run ended
  faults

process == <<child, known, told, status>>
signals == <<phase, asked, held>>
plan == <<opt, todo, done>>
vars == <<plan, workspace, process, stray, pc, next, signals, unsure, code, warned, exit, faults>>

Private == {"profile source", "generator"}
Supervised == {"bootstrap", "autostart"}
Public == {"plan", "consent", "bootstrap", "preflight", "backup", "install", "healthcheck", "autostart"}

(* The public stages of a command line, in their order.                    *)
Stages(o) ==
  LET Given(wanted, stage) == IF wanted THEN <<stage>> ELSE <<>>
      Step(stage) == Given(o.apply /\ stage \notin o.skip, stage)
  IN <<"plan">> \o Given(~o.install, "consent") \o Given(o.bootstrap, "bootstrap")
       \o Step("preflight") \o Step("backup") \o Given(o.apply, "install")
       \o Step("healthcheck") \o Given(o.autostart, "autostart")

(* The last is the traceback of a child that has outlived KILL.            *)
Endings == {"ok", "failed", "signalled", "interrupted", "unkilled"}

TypeOK ==
  /\ opt \in Command /\ workspace \in {"none", "empty", "profiles"}
  /\ child \in Private \cup Public \cup {"none"} /\ stray \subseteq Private \cup Public
  /\ known \in BOOLEAN /\ told \in BOOLEAN /\ status \in {"none", "ok", "bad"}
  /\ pc \in {"idle", "mkdir", "handlers", "profiles", "validate", "spawn", "spawned", "wait",
             "terminate", "kill", "cleanup", "restore", "public", "plain", "supervise",
             "started", "supervised", "reaped"}
  /\ next \in Private \cup Public \cup {"none"}
  /\ todo \in Seq(Public) /\ done \subseteq Public
  /\ phase \in {"inactive", "active", "spawning", "shutdown", "terminating", "cleanup"}
  /\ asked \in BOOLEAN /\ held \in BOOLEAN /\ unsure \in BOOLEAN /\ warned \in BOOLEAN
  /\ code \in Endings /\ exit \in Endings \cup {"none", "killed", "terminated", "crashed"}
  /\ faults \in 0..MaxFaults

Init ==
  /\ opt \in Options /\ workspace = "none" /\ stray = {}
  /\ child = "none" /\ known = FALSE /\ told = FALSE /\ status = "none"
  /\ pc = "idle" /\ next = "none" /\ todo = <<>> /\ done = {}
  /\ phase = "inactive" /\ asked = FALSE /\ held = FALSE /\ unsure = FALSE
  /\ code = "ok" /\ warned = FALSE /\ exit = "none" /\ faults = 0

Fault == faults < MaxFaults /\ faults' = faults + 1
Smooth == faults' = faults

End(result) ==
  /\ pc' = "idle" /\ exit' = result /\ phase' = "inactive" /\ held' = FALSE
  /\ stray' = IF child = "none" THEN stray ELSE stray \cup {child}
  /\ child' = "none" /\ known' = FALSE /\ told' = FALSE /\ status' = "none"

-----------------------------------------------------------------------------
(* The private part *)

(* From here on the signals are blocked.                                   *)
Start ==
  /\ pc = "idle"
  /\ opt' \in Options /\ todo' = Stages(opt') /\ done' = {}
  /\ pc' = IF opt'.install THEN "public" ELSE "mkdir"
  /\ next' = "none" /\ phase' = "inactive" /\ asked' = FALSE /\ held' = FALSE
  /\ unsure' = FALSE /\ code' = "ok" /\ warned' = FALSE /\ exit' = "none"
  /\ workspace' = "none"
  /\ UNCHANGED <<process, stray>> /\ Smooth

MakeWorkspace ==
  /\ pc = "mkdir" /\ workspace' = "empty" /\ pc' = "handlers"
  /\ UNCHANGED <<plan, process, stray, next, signals, unsure, code, warned, exit>> /\ Smooth

MakeFails ==
  /\ pc = "mkdir" /\ Fault /\ End("failed")
  /\ UNCHANGED <<plan, workspace, next, asked, unsure, code, warned>>

(* A signal that was blocked is raised when the mask is restored.          *)
InstallHandlers ==
  /\ pc = "handlers"
  /\ IF held
     THEN pc' = "cleanup" /\ code' = "signalled" /\ phase' = "terminating" /\ asked' = TRUE
     ELSE pc' = "profiles" /\ phase' = "active" /\ UNCHANGED <<code, asked>>
  /\ held' = FALSE
  /\ UNCHANGED <<plan, workspace, process, stray, next, unsure, warned, exit>> /\ Smooth

(* The mask stays until the end, and what it holds ends the process then.  *)
HandlersFail ==
  /\ pc = "handlers" /\ Fault /\ pc' = "cleanup" /\ code' = "failed"
  /\ UNCHANGED <<plan, workspace, process, stray, next, signals, unsure, warned, exit>>

(* Explicit reuse: an owner-only file is copied by the process itself.     *)
ReuseProfiles ==
  /\ pc = "profiles" /\ opt.mode = "reuse"
  /\ \/ workspace' = "profiles" /\ pc' = "validate" /\ Smooth /\ UNCHANGED code
     \/ Fault /\ workspace' = workspace /\ pc' = "cleanup" /\ code' = "failed"
  /\ UNCHANGED <<plan, process, stray, next, signals, unsure, warned, exit>>

BeginSpawn(stage) ==
  /\ pc' = "spawn" /\ next' = stage /\ phase' = "spawning"
  /\ UNCHANGED <<plan, workspace, process, stray, asked, held, unsure, code, warned, exit>> /\ Smooth

AcquireProfiles == pc = "profiles" /\ opt.mode # "reuse" /\ BeginSpawn("profile source")

Validate ==
  /\ pc = "validate"
  /\ \/ BeginSpawn("generator")
     \/ /\ Fault /\ pc' = "cleanup" /\ code' = "failed"
        /\ UNCHANGED <<plan, workspace, process, stray, next, signals, unsure, warned, exit>>

(* The process exists before the lifecycle knows it.                       *)
Spawn ==
  /\ pc = "spawn" /\ pc' = "spawned" /\ child' = next /\ status' = "none"
  /\ UNCHANGED <<plan, workspace, known, told, stray, next, signals, unsure, code, warned, exit>>
  /\ Smooth

SpawnFails ==
  /\ pc = "spawn" /\ Fault /\ pc' = "cleanup"
  /\ code' = IF asked THEN "signalled" ELSE "failed"
  /\ phase' = IF asked THEN "terminating" ELSE "active"
  /\ UNCHANGED <<plan, workspace, process, stray, next, asked, held, unsure, warned, exit>>

(* A signal noted in between is raised now.                                *)
ChildStarted ==
  /\ pc = "spawned" /\ known' = TRUE
  /\ IF asked THEN pc' = "terminate" /\ code' = "signalled" /\ phase' = "shutdown"
              ELSE pc' = "wait" /\ phase' = "active" /\ UNCHANGED code
  /\ UNCHANGED <<plan, workspace, child, told, status, stray, next, asked, held, unsure, warned, exit>>
  /\ Smooth

Reap ==
  /\ pc = "wait" /\ child = "none"
  /\ known' = FALSE /\ told' = FALSE
  /\ IF status = "ok"
     THEN pc' = (IF next = "generator" THEN "cleanup" ELSE "validate") /\ UNCHANGED code
     ELSE pc' = "cleanup" /\ code' = "failed"
  /\ UNCHANGED <<plan, workspace, child, status, stray, next, signals, unsure, warned, exit>>
  /\ Smooth

(* shutdown_active_child: TERM to the process group, and KILL after the    *)
(* grace period.                                                           *)
Terminate ==
  /\ pc = "terminate" /\ pc' = "kill" /\ told' = TRUE
  /\ UNCHANGED <<plan, workspace, child, known, status, stray, next, signals, unsure, code, warned, exit>>
  /\ Smooth

(* Mutant: whoever ignores TERM is left alone.                             *)
NoForce ==
  /\ pc = "kill" /\ pc' = "cleanup" /\ phase' = "terminating"
  /\ UNCHANGED <<plan, workspace, process, stray, next, asked, held, unsure, code, warned, exit>>
  /\ Smooth

(* Mutant: the grace period has no end.                                    *)
Patience ==
  /\ pc = "kill" /\ child = "none" /\ pc' = "cleanup" /\ phase' = "terminating"
  /\ known' = FALSE /\ told' = FALSE /\ status' = "none"
  /\ UNCHANGED <<plan, workspace, child, stray, next, asked, held, unsure, code, warned, exit>>
  /\ Smooth

ForceEnd ==
  /\ pc = "kill" /\ pc' = "cleanup" /\ phase' = "terminating"
  /\ child' = "none" /\ known' = FALSE /\ told' = FALSE /\ status' = "none"
  /\ UNCHANGED <<plan, workspace, stray, next, asked, held, unsure, code, warned, exit>>
  /\ Smooth

(* The wait after KILL has a limit too.  TimeoutExpired is caught nowhere:  *)
(* the cleanup runs, and a child that is still there keeps its handle.     *)
ForceTimesOut ==
  /\ pc = "kill" /\ Fault /\ pc' = "cleanup" /\ phase' = "terminating" /\ code' = "unkilled"
  /\ known' = (child # "none")
  /\ UNCHANGED <<plan, workspace, child, told, status, stray, next, asked, held, unsure, warned, exit>>

(* The handlers only note signals from here.  The directory is removed     *)
(* with what is in it; an error is reported and remembered.                *)
Cleanup ==
  /\ pc = "cleanup" /\ pc' = "restore" /\ phase' = "cleanup"
  /\ \/ workspace' = "none" /\ Smooth /\ UNCHANGED warned
     \/ Fault /\ workspace' \in {workspace, "empty"} /\ warned' = TRUE
  /\ UNCHANGED <<plan, process, stray, next, asked, held, unsure, code, exit>>

(* A noted signal counts also when nothing has raised it.                  *)
FinalCode ==
  IF code # "ok" THEN code
  ELSE IF asked THEN "signalled"
  ELSE IF warned THEN "failed" ELSE "ok"

RestoreHandlers ==
  /\ pc = "restore"
  /\ IF FinalCode # "ok"
     THEN End(IF held THEN "terminated" ELSE FinalCode) /\ UNCHANGED code
     ELSE /\ pc' = "public" /\ phase' = "inactive"
          /\ UNCHANGED <<process, stray, held, code, exit>>
  /\ UNCHANGED <<plan, workspace, next, asked, unsure, warned>> /\ Smooth

-----------------------------------------------------------------------------
(* The public stages *)

(* Device selection, the offline plan and the confirmation run in the      *)
(* process itself, and any of them may end the run.                        *)
Consent ==
  /\ pc = "public" /\ todo # <<>> /\ Head(todo) = "consent"
  /\ \/ /\ todo' = Tail(todo) /\ done' = done \cup {"consent"} /\ Smooth
        /\ UNCHANGED <<opt, process, stray, pc, exit, phase, held>>
     \/ Fault /\ End("failed") /\ UNCHANGED plan
  /\ UNCHANGED <<workspace, next, asked, unsure, code, warned>>

StartPlain ==
  /\ pc = "public" /\ todo # <<>> /\ Head(todo) \notin Supervised \cup {"consent"}
  /\ pc' = "plain" /\ next' = Head(todo) /\ child' = Head(todo) /\ known' = TRUE /\ status' = "none"
  /\ UNCHANGED <<plan, workspace, told, stray, signals, unsure, code, warned, exit>> /\ Smooth

Succeed ==
  /\ pc' = "public" /\ todo' = Tail(todo) /\ done' = done \cup {Head(todo)}
  /\ known' = FALSE /\ told' = FALSE /\ status' = "none"
  /\ UNCHANGED <<opt, child, stray, exit, phase, held>>

EndPlain ==
  /\ pc = "plain" /\ child = "none"
  /\ IF status = "ok" THEN Succeed ELSE End("failed") /\ UNCHANGED plan
  /\ UNCHANGED <<workspace, next, asked, unsure, code, warned>> /\ Smooth

(* The handlers for all three signals are installed behind a mask.         *)
StartSupervised ==
  /\ pc = "public" /\ todo # <<>> /\ Head(todo) \in Supervised
  /\ pc' = "supervise" /\ next' = Head(todo) /\ held' = FALSE /\ unsure' = FALSE
  /\ UNCHANGED <<plan, workspace, process, stray, phase, asked, code, warned, exit>> /\ Smooth

SpawnSupervised ==
  /\ pc = "supervise" /\ pc' = "started" /\ child' = next /\ status' = "none"
  /\ UNCHANGED <<plan, workspace, known, told, stray, next, signals, unsure, code, warned, exit>>
  /\ Smooth

SupervisedFails ==
  /\ pc = "supervise" /\ Fault /\ pc' = "reaped" /\ status' = "bad"
  /\ UNCHANGED <<plan, workspace, child, known, told, stray, next, signals, unsure, code, warned, exit>>

(* Mutant: what came before the child is not forwarded.                    *)
KeepPending ==
  /\ pc = "started" /\ pc' = "supervised" /\ known' = TRUE /\ held' = FALSE
  /\ UNCHANGED <<plan, workspace, child, told, status, stray, next, phase, asked, unsure, code, warned, exit>>
  /\ Smooth

ForwardPending ==
  /\ pc = "started" /\ pc' = "supervised" /\ known' = TRUE
  /\ told' = (held /\ child # "none") /\ held' = FALSE
  /\ UNCHANGED <<plan, workspace, child, status, stray, next, phase, asked, unsure, code, warned, exit>>
  /\ Smooth

(* wait and poll are repeated after an error, which is remembered.         *)
WaitFails ==
  /\ pc = "supervised" /\ ~unsure /\ Fault /\ unsure' = TRUE
  /\ UNCHANGED <<plan, workspace, process, stray, pc, next, signals, code, warned, exit>>

WaitSupervised ==
  /\ pc = "supervised" /\ child = "none" /\ pc' = "reaped" /\ known' = FALSE
  /\ UNCHANGED <<plan, workspace, child, told, status, stray, next, signals, unsure, code, warned, exit>>
  /\ Smooth

(* Mutant: only the child's own code is looked at.                         *)
ChildResult == IF status = "ok" THEN "ok" ELSE "failed"

(* The child's code goes first; a signal or a doubt spoils its success.    *)
SupervisedResult ==
  IF status # "ok" THEN "failed"
  ELSE IF asked THEN "signalled"
  ELSE IF unsure THEN "failed" ELSE "ok"

EndSupervised ==
  /\ pc = "reaped"
  /\ IF SupervisedResult = "ok" THEN Succeed ELSE End(SupervisedResult) /\ UNCHANGED plan
  /\ UNCHANGED <<workspace, next, asked, unsure, code, warned>> /\ Smooth

Finish ==
  /\ pc = "public" /\ todo = <<>> /\ End("ok")
  /\ UNCHANGED <<plan, workspace, next, asked, unsure, code, warned>> /\ Smooth

-----------------------------------------------------------------------------
(* Children, signals, kills *)

(* The profile source publishes its file in the workspace.                 *)
ChildWrites ==
  /\ "profile source" \in stray \cup {child} /\ workspace = "empty" /\ workspace' = "profiles"
  /\ UNCHANGED <<plan, process, stray, pc, next, signals, unsure, code, warned, exit>> /\ Smooth

ChildEnds ==
  /\ child # "none" /\ child' = "none"
  /\ \/ /\ child = "profile source" => workspace = "profiles"
        /\ status' = "ok" /\ Smooth
     \/ told /\ status' = "bad" /\ Smooth
     \/ ~told /\ Fault /\ status' = "bad"
  /\ UNCHANGED <<plan, workspace, known, told, stray, pc, next, signals, unsure, code, warned, exit>>

StrayEnds ==
  /\ \E s \in stray : stray' = stray \ {s}
  /\ UNCHANGED <<plan, workspace, process, pc, next, signals, unsure, code, warned, exit>> /\ Smooth

(* SIGTERM or SIGHUP, by where it finds the run.                           *)
(* Mutant: nothing is blocked while the directory is made.                 *)
SignalUnblocked ==
  /\ pc \in {"mkdir", "handlers"} /\ Fault /\ End("terminated")
  /\ UNCHANGED <<plan, workspace, next, asked, unsure, code, warned>>

SignalBlocked ==
  /\ pc \in {"mkdir", "handlers"} /\ ~held /\ Fault /\ held' = TRUE
  /\ UNCHANGED <<plan, workspace, process, stray, pc, next, phase, asked, unsure, code, warned, exit>>

SignalRaised ==
  /\ phase = "active" /\ pc \in {"profiles", "validate", "wait", "cleanup"} /\ Fault
  /\ asked' = TRUE /\ code' = IF code = "ok" THEN "signalled" ELSE code
  /\ IF pc = "wait" THEN pc' = "terminate" /\ phase' = "shutdown"
                    ELSE pc' = "cleanup" /\ phase' = "terminating"
  /\ UNCHANGED <<plan, workspace, process, stray, next, held, unsure, warned, exit>>

(* The exception that a handler raises after the last step, when phase is  *)
(* still "active", is not caught, and nothing is cleaned.                  *)
SignalEscapes ==
  /\ phase = "active" /\ pc = "cleanup" /\ Fault /\ End("crashed")
  /\ UNCHANGED <<plan, workspace, next, asked, unsure, code, warned>>

SignalNoted ==
  /\ phase \notin {"active", "inactive"} /\ ~asked /\ Fault /\ asked' = TRUE
  /\ UNCHANGED <<plan, workspace, process, stray, pc, next, phase, held, unsure, code, warned, exit>>

(* Under supervision; SIGINT too.                                          *)
SignalForwarded ==
  /\ pc \in {"supervise", "started", "supervised", "reaped"} /\ ~asked /\ Fault /\ asked' = TRUE
  /\ held' = ~known /\ told' = (known /\ child # "none")
  /\ UNCHANGED <<plan, workspace, child, known, status, stray, pc, next, phase, unsure, code, warned, exit>>

(* Elsewhere the default action ends the run, and its child goes on.       *)
SignalDefault ==
  /\ pc \in {"public", "plain"} /\ Fault /\ End("terminated")
  /\ UNCHANGED <<plan, workspace, next, asked, unsure, code, warned>>

(* KeyboardInterrupt while the lifecycle is in charge.  A child that is    *)
(* not known yet, or is being shut down, is left behind.                   *)
Interrupt ==
  /\ pc \in {"handlers", "profiles", "validate", "spawn", "spawned", "wait", "terminate", "kill"}
  /\ Fault
  /\ code' = IF asked /\ pc \in {"spawn", "spawned"} THEN "signalled" ELSE "interrupted"
  /\ pc' = IF pc = "wait" THEN "terminate" ELSE "cleanup"
  /\ phase' = IF pc = "wait" THEN "shutdown"
              ELSE IF pc \in {"terminate", "kill"} \/ asked THEN "terminating" ELSE phase
  /\ UNCHANGED <<plan, workspace, process, stray, next, asked, held, unsure, warned, exit>>

(* In the creation, in the cleanup or in a public stage it ends the run;   *)
(* subprocess.run kills its child, and may have started none.              *)
InterruptEnds ==
  /\ pc \in {"mkdir", "cleanup", "public", "plain"} /\ Fault
  /\ pc' = "idle" /\ exit' = "interrupted" /\ phase' = "inactive" /\ held' = FALSE
  /\ workspace' \in IF pc = "mkdir" THEN {"none", "empty"}
                    ELSE {workspace} \cup (IF pc = "cleanup" /\ workspace # "none" THEN {"empty"} ELSE {})
  /\ stray' = IF pc = "cleanup" /\ child # "none" THEN stray \cup {child} ELSE stray
  /\ child' = "none" /\ known' = FALSE /\ told' = FALSE /\ status' = "none"
  /\ UNCHANGED <<plan, next, asked, unsure, code, warned>>

Kill ==
  /\ pc # "idle" /\ Fault /\ End("killed")
  /\ UNCHANGED <<plan, workspace, next, asked, unsure, code, warned>>

Run ==
  \/ Start \/ MakeWorkspace \/ InstallHandlers \/ ReuseProfiles \/ AcquireProfiles \/ Validate
  \/ Spawn \/ ChildStarted \/ Reap \/ Terminate \/ ForceEnd \/ Cleanup \/ RestoreHandlers
  \/ Consent \/ StartPlain \/ EndPlain \/ StartSupervised \/ SpawnSupervised \/ ForwardPending
  \/ WaitSupervised \/ EndSupervised \/ Finish

Failures ==
  \/ MakeFails \/ HandlersFail \/ SpawnFails \/ ForceTimesOut \/ SupervisedFails \/ WaitFails

Children == ChildWrites \/ ChildEnds \/ StrayEnds

Others ==
  \/ SignalBlocked \/ SignalRaised \/ SignalEscapes \/ SignalNoted \/ SignalForwarded \/ SignalDefault
  \/ Interrupt \/ InterruptEnds \/ Kill

Next == Run \/ Failures \/ Children \/ Others

Spec == Init /\ [][Next]_vars

(* A public stage ends on its own, by its time limits or its own recovery; *)
(* the wizard and the profile source may wait for an answer for ever.      *)
PublicEnds == child \in Public /\ ChildEnds

FairSpec == Spec /\ WF_vars(Run) /\ WF_vars(PublicEnds)

-----------------------------------------------------------------------------
(* Properties *)

(* However a run ends by itself or by a signal, the private directory is   *)
(* gone, or the operator has been told that it is not.  Two endings are    *)
(* left out besides a kill: an interrupt that hits the creation or the     *)
(* cleanup, and SignalEscapes.                                             *)
SecretsGone ==
  pc = "idle" /\ exit \in {"ok", "failed", "signalled", "unkilled", "terminated"} /\ ~warned
    => workspace = "none"

(* A run leaves no process behind that could still install, switch or      *)
(* write after the operator has read how it ended.  Besides a kill there   *)
(* are four ways it may: a signal whose default action ends the run in a   *)
(* public stage that is not a transaction; an interrupt or a signal that   *)
(* finds a private child without a handle; an interrupt during the         *)
(* shutdown of a private child; and a private child that outlives KILL by  *)
(* the forced timeout, which ends the run with a traceback.  A             *)
(* transaction is left by a kill alone.                                    *)
NothingBehind ==
  [][\A s \in stray' \ stray :
       \/ exit' = "killed"
       \/ exit' = "terminated" /\ s \in Public \ Supervised
       \/ s \in Private /\ ~known
       \/ s \in Private /\ exit' = "interrupted"
       \/ s \in Private /\ exit' = "unkilled" /\ told]_vars

(* A signal that reaches the run before or during a transaction reaches    *)
(* the transaction, also in the window in which the child has no handle.   *)
SignalReachesChild == pc = "supervised" /\ asked /\ child # "none" => told

(* Success is claimed only for a run that completed every stage, that no   *)
(* signal touched, and whose secrets are removed.                          *)
SuccessIsWhole ==
  exit = "ok" => done = ToSet(Stages(opt)) /\ ~asked /\ ~warned /\ ~unsure

(* A signal ends the run.                                                  *)
SignalEnds == asked ~> pc = "idle"
=============================================================================
