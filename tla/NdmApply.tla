------------------------------ MODULE NdmApply ------------------------------
(***************************************************************************)
(* "netcraze-live apply" (scripts/routerkit_netcraze_live.py: main and     *)
(* apply_live_plan): read, plan, read again, back up, send the commands    *)
(* one by one, verify, save, verify, and roll back on the first failure.   *)
(* A step is one NDM command.  Between two steps the process may be killed *)
(* and the router restarted, which loses what was not saved; an            *)
(* administrator may change the configuration meanwhile.                   *)
(***************************************************************************)
EXTENDS NdmRouter

CONSTANTS
  Initial,    \* configurations the router may start from
  LostReply,  \* may a command that is reported as failed have taken effect?
  NoPlan,     \* no plan made yet
  MaxFaults,  \* bound on failing commands, kills and unasked restarts
  MaxEdits    \* bound on the changes of an administrator

ASSUME ApplyAssumption ==
  /\ Initial \subseteq Config
  /\ LostReply \in BOOLEAN
  /\ NoPlan \notin Plan
  /\ MaxFaults \in Nat /\ MaxEdits \in Nat

VARIABLES
  running,  \* the running configuration
  startup,  \* the saved configuration
  pc,       \* where the adapter is
  plan,     \* the plan it follows, or followed last
  before,   \* state_before: what its second read saw
  todo,     \* steps it has still to take
  undo,     \* its rollback list
  exit,     \* how it ended
  faults, edits

vars == <<running, startup, pc, plan, before, todo, undo, exit, faults, edits>>

router == <<running, startup>>
adapter == <<pc, plan, before, todo, undo, exit>>

(* Exit status 0 ("noop", "ok"), 1 ("refused" before any write,            *)
(* "rolled-back" with rollback_verified) and 3 ("unproven").               *)
Exit == {"none", "noop", "ok", "refused", "rolled-back", "unproven", "killed"}

TypeOK ==
  /\ running \in Config /\ startup \in Config /\ before \in Config
  /\ pc \in {"idle", "planned", "work", "save", "recheck", "undo", "undosave", "undocheck"}
  /\ plan \in Plan \cup {NoPlan}
  /\ pc # "idle" => plan # NoPlan
  /\ todo \subseteq Step
  /\ undo \subseteq {t \in Step : t[3] = 1}
  /\ exit \in Exit
  /\ faults \in 0..MaxFaults /\ edits \in 0..MaxEdits

Fault == faults < MaxFaults /\ faults' = faults + 1

End(status) ==
  /\ pc' = "idle" /\ exit' = status /\ todo' = {} /\ undo' = {}
  /\ UNCHANGED <<plan, before>>

GoTo(label) == pc' = label /\ UNCHANGED <<plan, before, todo, undo, exit>>

(* A command that changes the configuration from cfg to cfg2 is reported   *)
(* as failed.                                                              *)
Fails(cfg, cfg2) == Fault /\ running' \in {cfg} \cup (IF LostReply THEN {cfg2} ELSE {})

-----------------------------------------------------------------------------
(* Reading and planning *)

(* main: the first read and the plan the operator has authorized.          *)
Start(allow_move) ==
  /\ pc = "idle"
  /\ \E pl \in Plans(running, allow_move) : plan' = pl
  /\ pc' = "planned" /\ exit' = "none"
  /\ UNCHANGED <<before, todo, undo, router, faults, edits>>

PlanRefused(allow_move) ==
  /\ pc = "idle"
  /\ Plans(running, allow_move) = {}
  /\ exit' = "refused"
  /\ UNCHANGED <<pc, plan, before, todo, undo, router, faults, edits>>

PlanIsFresh == Plans(running, plan.assignment = "move") = {plan}

(* The second read: a plan it does not confirm is stale.                   *)
Confirm ==
  /\ pc = "planned" /\ PlanIsFresh /\ WriteRequired(plan)
  /\ before' = running /\ todo' = Work(plan) /\ undo' = {}
  /\ pc' = "work"
  /\ UNCHANGED <<plan, exit, router, faults, edits>>

Noop ==
  /\ pc = "planned" /\ PlanIsFresh /\ ~WriteRequired(plan)
  /\ before' = running /\ pc' = "idle"
  /\ exit' = IF Applied(running, plan) THEN "noop" ELSE "refused"
  /\ UNCHANGED <<plan, todo, undo, router, faults, edits>>

Stale ==
  /\ pc = "planned" /\ ~PlanIsFresh
  /\ End("refused")
  /\ UNCHANGED <<router, faults, edits>>

(* One of the two reads fails, or the backup cannot be created.            *)
NotStarted ==
  /\ pc \in {"idle", "planned"} /\ Fault
  /\ End("refused")
  /\ UNCHANGED <<router, edits>>

-----------------------------------------------------------------------------
(* Writing *)

Current(t) == t \in todo /\ \A u \in todo \ {t} : Earlier(t, u)

Send ==
  /\ pc = "work"
  /\ \E t \in todo :
       /\ Current(t)
       /\ running' = Effect(running, plan, t)
       /\ todo' = todo \ {t}
       /\ undo' = IF Undoable(t) THEN undo \cup {t} ELSE undo
  /\ UNCHANGED <<startup, pc, plan, before, exit, faults, edits>>

SendFails ==
  /\ pc = "work"
  /\ \E t \in todo : Current(t) /\ Fails(running, Effect(running, plan, t))
  /\ GoTo("undo")
  /\ UNCHANGED <<startup, edits>>

InForce == running.guard = before.guard /\ Applied(running, plan)

Verify ==
  /\ pc = "work" /\ todo = {}
  /\ GoTo(IF InForce THEN "save" ELSE "undo")
  /\ UNCHANGED <<router, faults, edits>>

Save ==
  /\ pc = "save"
  /\ startup' = running
  /\ GoTo("recheck")
  /\ UNCHANGED <<running, faults, edits>>

SaveFails ==
  /\ pc = "save" /\ Fault
  /\ startup' \in {startup} \cup (IF LostReply THEN {running} ELSE {})
  /\ GoTo("undo")
  /\ UNCHANGED <<running, edits>>

Recheck ==
  /\ pc = "recheck"
  /\ IF InForce THEN End("ok") ELSE GoTo("undo")
  /\ UNCHANGED <<router, faults, edits>>

(* One of the two reads that verify the result fails.                      *)
ReadFails ==
  /\ pc = "recheck" \/ (pc = "work" /\ todo = {})
  /\ Fault /\ GoTo("undo")
  /\ UNCHANGED <<router, edits>>

-----------------------------------------------------------------------------
(* Rollback, last entry first *)

Last(t) == t \in undo /\ \A u \in undo \ {t} : Earlier(u, t)

Undo ==
  /\ pc = "undo"
  /\ \E t \in undo :
       /\ Last(t)
       /\ running' = Reversal(running, plan, before, t)
       /\ undo' = undo \ {t}
  /\ UNCHANGED <<startup, pc, plan, before, todo, exit, faults, edits>>

(* Mutant: a rollback command that fails is passed over.                   *)
UndoGoesOn ==
  /\ pc = "undo"
  /\ \E t \in undo :
       /\ Last(t)
       /\ Fails(running, Reversal(running, plan, before, t))
       /\ undo' = undo \ {t}
  /\ UNCHANGED <<startup, pc, plan, before, todo, exit, edits>>

UndoFails ==
  /\ pc = "undo"
  /\ \E t \in undo : Last(t) /\ Fails(running, Reversal(running, plan, before, t))
  /\ End("unproven")
  /\ UNCHANGED <<startup, edits>>

UndoSave ==
  /\ pc = "undo" /\ undo = {}
  /\ startup' = running
  /\ GoTo("undocheck")
  /\ UNCHANGED <<running, faults, edits>>

UndoSaveFails ==
  /\ pc = "undo" /\ undo = {} /\ Fault
  /\ startup' \in {startup} \cup (IF LostReply THEN {running} ELSE {})
  /\ End("unproven")
  /\ UNCHANGED <<running, edits>>

(* What the rollback is verified by is the default guard.                  *)
UndoCheck ==
  /\ pc = "undocheck"
  /\ End(IF running.guard = before.guard THEN "rolled-back" ELSE "unproven")
  /\ UNCHANGED <<router, faults, edits>>

UndoReadFails ==
  /\ pc = "undocheck" /\ Fault
  /\ End("unproven")
  /\ UNCHANGED <<router, edits>>

-----------------------------------------------------------------------------
(* The surroundings *)

(* SIGKILL, or Ctrl-C: KeyboardInterrupt is not among the exceptions that  *)
(* start the rollback.                                                     *)
Kill ==
  /\ pc # "idle" /\ Fault
  /\ End("killed")
  /\ UNCHANGED <<router, edits>>

(* A restart of the router brings back the saved configuration.            *)
Restart ==
  /\ Fault
  /\ running' = startup
  /\ IF pc = "idle" THEN UNCHANGED adapter ELSE End("killed")
  /\ UNCHANGED <<startup, edits>>

(* "Use the router Web UI to restore the saved startup-config."            *)
RestoreStartup ==
  /\ pc = "idle" /\ exit \in {"refused", "unproven"} /\ running # startup
  /\ running' = startup
  /\ UNCHANGED <<startup, adapter, faults, edits>>

Foreign(cfg2) == edits < MaxEdits /\ edits' = edits + 1 /\ running' = cfg2

ForeignProxy == [BlankProxy EXCEPT !.public = TRUE, !.up = TRUE]

(* The Web UI: objects, assignments and the default policy; any save.      *)
Administrator ==
  /\ \/ \E i \in ProxyIndex :
          Foreign(WithProxy(running, i, IF running.proxies[i] = Absent THEN ForeignProxy ELSE Absent))
     \/ \E j \in PolicyIndex :
          Foreign(WithPolicy(running, j, IF running.policies[j] = Absent THEN BlankPolicy ELSE Absent))
     \/ \E d \in Device, j \in PoliciesOf(running) \cup {Absent} :
          Foreign([running EXCEPT !.assigned[d] = j])
     \/ \E g \in Guard \ {running.guard} : Foreign([running EXCEPT !.guard = g])
  /\ startup' \in {startup, running'}
  /\ UNCHANGED <<adapter, faults>>

-----------------------------------------------------------------------------

Init ==
  /\ running \in Initial /\ startup = running /\ before = running
  /\ pc = "idle" /\ plan = NoPlan /\ todo = {} /\ undo = {} /\ exit = "none"
  /\ faults = 0 /\ edits = 0

Command == \E allow_move \in BOOLEAN : Start(allow_move) \/ PlanRefused(allow_move)

Proceed ==
  \/ Confirm \/ Noop \/ Stale
  \/ Send \/ Verify \/ Save \/ Recheck
  \/ Undo \/ UndoSave \/ UndoCheck

Failure ==
  \/ NotStarted \/ SendFails \/ SaveFails \/ ReadFails
  \/ UndoFails \/ UndoSaveFails \/ UndoReadFails

Next ==
  Command \/ Proceed \/ Failure \/ Kill \/ Restart \/ RestoreStartup \/ Administrator

Spec == Init /\ [][Next]_vars
-----------------------------------------------------------------------------
(* Properties *)

KeepsPresent ==
  /\ \A i \in ProxiesOf(before) : running'.proxies[i] = running.proxies[i]
  /\ \A j \in PoliciesOf(before) : running'.policies[j] = running.policies[j]
  /\ \A d \in Device \ {SelectedDevice} : running'.assigned[d] = running.assigned[d]

(* The adapter never touches an object that its second read saw, nor the   *)
(* policy of another device, not by its commands, not by its rollback,     *)
(* whatever an administrator does in between.                              *)
PresentUntouched ==
  [][edits' = edits /\ pc \in {"work", "undo"} /\ exit' # "killed" => KeepsPresent]_vars

(* Without another writer a rollback that reports itself as verified has   *)
(* put back all that was there before, the assignment included.            *)
RollbackRestores == exit = "rolled-back" => running = before

(* Without another writer the saved configuration changes to one with the  *)
(* whole plan in it, or to what the run found, and to nothing half made.   *)
SavedAllOrNothing ==
  [][startup' = before \/ Applied(startup', plan)]_startup

(* A run that succeeded, without another writer, leaves nothing for the    *)
(* next one to do, and nothing that makes it refuse.                       *)
RerunIsNoop ==
  exit = "ok" => \E pl \in Plans(running, FALSE) : ~WriteRequired(pl)

(* The operator repeats the command, and restores the saved configuration  *)
(* when the adapter will not work on the running one; the adapter goes on  *)
(* by itself.                                                              *)
Fairness == WF_vars(Proceed) /\ SF_vars(Command) /\ SF_vars(RestoreStartup)

FairSpec == Spec /\ Fairness

(* Whatever fails, is killed or restarted on the way, a router that can be *)
(* planned for at the start ends up with the configuration of the          *)
(* manifest.                                                               *)
RetrySucceeds == Plans(running, TRUE) # {} => <>(exit \in {"ok", "noop"})
=============================================================================
