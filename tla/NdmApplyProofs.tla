--------------------------- MODULE NdmApplyProofs ---------------------------
(***************************************************************************)
(* Proofs about NdmApply: what an adapter run may touch, whatever fails,   *)
(* restarts or is edited around it.                                        *)
(***************************************************************************)
EXTENDS NdmApply, TLAPS

-----------------------------------------------------------------------------
(* Steps *)

(* A step has one of three parts; its slot and command number are in range *)
(* (the loops over plan.bindings in apply_live_plan).                      *)
LEMMA StepShape ==
  ASSUME NEW t \in Step
  PROVE  /\ t[2] \in Slot
         /\ t[3] \in 1..5
         /\ \/ t[1] = 1
            \/ t[1] = 2 /\ t[3] \in 1..2
            \/ t[1] = 3 /\ t[2] = SelectedSlot /\ t[3] = 1
         /\ t = <<t[1], t[2], t[3]>>
BY RouterAssumption DEF Step, ProxyCommands, PolicyCommands

-----------------------------------------------------------------------------
(* What a command changes *)

(* A command of a plan leaves a configuration of the right shape, and      *)
(* changes nothing but the object or the assignment it names.              *)
LEMMA EffectFrame ==
  ASSUME NEW cfg \in Config, NEW pl \in Plan, NEW t \in Step,
         t[1] = 3 => SelectedDevice \in Device
  PROVE  LET new == Effect(cfg, pl, t) IN
         /\ new \in Config
         /\ new.guard = cfg.guard
         /\ \A i \in ProxyIndex :
              new.proxies[i] # cfg.proxies[i] => t[1] = 1 /\ i = pl.proxy[t[2]]
         /\ \A j \in PolicyIndex :
              new.policies[j] # cfg.policies[j] => t[1] = 2 /\ j = pl.policy[t[2]]
         /\ \A d \in Device :
              new.assigned[d] # cfg.assigned[d] => t[1] = 3 /\ d = SelectedDevice
<1> DEFINE s == t[2]
           i == pl.proxy[s]
           j == pl.policy[s]
           x == OrBlank(cfg.proxies[i], BlankProxy)
           y == OrBlank(cfg.policies[j], BlankPolicy)
<1>1. s \in Slot /\ i \in ProxyIndex /\ j \in PolicyIndex
  BY StepShape DEF Plan
<1>2. x \in Proxy
  BY <1>1, RouterAssumption DEF OrBlank, BlankProxy, Proxy, Config, Slot
<1>3. y \in Policy
  BY <1>1, RouterAssumption DEF OrBlank, BlankPolicy, Policy, Config, Slot
<1>4. s \in 0..Profiles
  BY <1>1, RouterAssumption DEF Slot
<1>5. ASSUME NEW z \in Proxy
      PROVE  LET new == WithProxy(cfg, i, z) IN
             /\ new \in Config /\ new.guard = cfg.guard
             /\ \A k \in ProxyIndex : new.proxies[k] # cfg.proxies[k] => k = i
             /\ new.policies = cfg.policies /\ new.assigned = cfg.assigned
  BY <1>1 DEF WithProxy, Config
<1>6. ASSUME NEW z \in Policy
      PROVE  LET new == WithPolicy(cfg, j, z) IN
             /\ new \in Config /\ new.guard = cfg.guard
             /\ \A k \in PolicyIndex : new.policies[k] # cfg.policies[k] => k = j
             /\ new.proxies = cfg.proxies /\ new.assigned = cfg.assigned
  BY <1>1 DEF WithPolicy, Config
<1>7. CASE t[1] = 1
  <2> DEFINE z == ProxyAfter(x, s, t[3])
  <2>1. z \in Proxy
    BY ZenonT(100), <1>2, <1>4 DEF ProxyAfter, Proxy
  <2>2. Effect(cfg, pl, t) = WithProxy(cfg, i, z)
    BY <1>7 DEF Effect
  <2> QED BY <1>5, <1>7, <2>1, <2>2
<1>8. CASE t[1] = 2
  <2> DEFINE z == PolicyAfter(y, s, i, t[3])
  <2>1. z \in Policy
    BY <1>1, <1>3, <1>4 DEF PolicyAfter, Policy
  <2>2. Effect(cfg, pl, t) = WithPolicy(cfg, j, z)
    BY <1>8 DEF Effect
  <2> QED BY <1>6, <1>8, <2>1, <2>2
<1>9. CASE t[1] = 3
  <2>1. Effect(cfg, pl, t) = [cfg EXCEPT !.assigned[SelectedDevice] = pl.policy[SelectedSlot]]
    BY <1>9 DEF Effect
  <2>2. pl.policy[SelectedSlot] \in PolicyIndex
    BY RouterAssumption DEF Plan
  <2> DEFINE m == pl.policy[SelectedSlot]
             new == [cfg EXCEPT !.assigned[SelectedDevice] = m]
  <2>3. m \in PolicyIndex /\ SelectedDevice \in Device
    BY <1>9, <2>2
  <2> HIDE DEF m
  <2>4. /\ new.proxies = cfg.proxies /\ new.policies = cfg.policies /\ new.guard = cfg.guard
        /\ new.assigned = [cfg.assigned EXCEPT ![SelectedDevice] = m]
    BY DEF Config
  <2>5. new \in Config
    BY <2>3, <2>4 DEF Config
  <2>6. \A d \in Device : new.assigned[d] # cfg.assigned[d] => d = SelectedDevice
    BY <2>4 DEF Config
  <2> QED BY <1>9, <2>1, <2>4, <2>5, <2>6 DEF m
<1> QED BY <1>7, <1>8, <1>9, StepShape

(* A rollback command takes away the object its step created, or puts the  *)
(* assignment back, and changes nothing else.                              *)
LEMMA ReversalFrame ==
  ASSUME NEW cfg \in Config, NEW old \in Config, NEW pl \in Plan, NEW t \in Step,
         t[1] = 3 => SelectedDevice \in Device
  PROVE  LET new == Reversal(cfg, pl, old, t) IN
         /\ new \in Config
         /\ new.guard = cfg.guard
         /\ \A i \in ProxyIndex :
              new.proxies[i] # cfg.proxies[i] => t[1] = 1 /\ i = pl.proxy[t[2]]
         /\ \A j \in PolicyIndex :
              new.policies[j] # cfg.policies[j] => t[1] = 2 /\ j = pl.policy[t[2]]
         /\ \A d \in Device :
              new.assigned[d] # cfg.assigned[d] => t[1] = 3 /\ d = SelectedDevice
         /\ t[1] = 1 => new.proxies[pl.proxy[t[2]]] = Absent
         /\ t[1] = 2 => new.policies[pl.policy[t[2]]] = Absent
         /\ t[1] = 3 => new.assigned[SelectedDevice] = old.assigned[SelectedDevice]
<1>1. t[2] \in Slot /\ pl.proxy[t[2]] \in ProxyIndex /\ pl.policy[t[2]] \in PolicyIndex
  BY StepShape DEF Plan
<1>2. CASE t[1] = 1
  BY <1>1, <1>2 DEF Reversal, WithProxy, Config
<1>3. CASE t[1] = 2
  BY <1>1, <1>3 DEF Reversal, WithPolicy, Config
<1>4. CASE t[1] = 3
  BY <1>4 DEF Reversal, Config
<1> QED BY <1>2, <1>3, <1>4, StepShape

-----------------------------------------------------------------------------
(* Plans *)

(* What build_live_plan returns is a plan; what it wants to create is not  *)
(* there yet, and it assigns a device only if one was named.               *)
LEMMA PlansSound ==
  ASSUME NEW cfg \in Config, NEW m, NEW pl \in Plans(cfg, m)
  PROVE  /\ pl \in Plan
         /\ \A s \in pl.newproxy : cfg.proxies[pl.proxy[s]] = Absent
         /\ \A s \in pl.newpolicy : cfg.policies[pl.policy[s]] = Absent
         /\ pl.assignment \in {"assign", "move"} => SelectedDevice \in Device
<1> DEFINE newproxy == {s \in Slot : ServingProxies(cfg, s) = {}}
           newpolicy(f) == {s \in Slot : ServingPolicies(cfg, f[s]) = {}}
<1>1. PICK c \in [proxy : [Slot -> ProxyIndex], policy : [Slot -> PolicyIndex]] :
        /\ ProxyChoice(cfg, c.proxy, newproxy)
        /\ PolicyChoice(cfg, c.proxy, c.policy, newpolicy(c.proxy))
        /\ pl = [proxy |-> c.proxy, newproxy |-> newproxy,
                 policy |-> c.policy, newpolicy |-> newpolicy(c.proxy),
                 assignment |-> AssignmentAction(cfg, c.policy)]
  BY DEF Plans
<1>2. AssignmentAction(cfg, c.policy) \in {"none", "reuse", "assign", "move"}
  BY DEF AssignmentAction
<1>3. c.proxy \in [Slot -> ProxyIndex] /\ c.policy \in [Slot -> PolicyIndex]
  OBVIOUS
<1>4. newproxy \subseteq Slot /\ newpolicy(c.proxy) \subseteq Slot
  OBVIOUS
<1>5. \A s \in newproxy : c.proxy[s] \notin ProxiesOf(cfg)
  BY <1>1 DEF ProxyChoice, LowestFree
<1>6. \A s \in newpolicy(c.proxy) : c.policy[s] \notin PoliciesOf(cfg)
  BY <1>1 DEF PolicyChoice, LowestFree
<1>7. AssignmentAction(cfg, c.policy) \in {"assign", "move"} => SelectedDevice \in Device
  BY RouterAssumption DEF AssignmentAction
<1> HIDE DEF newproxy, newpolicy
<1>8. pl \in Plan
  BY <1>1, <1>2, <1>3, <1>4 DEF Plan
<1>9. /\ pl.newproxy = newproxy /\ pl.proxy = c.proxy
      /\ pl.newpolicy = newpolicy(c.proxy) /\ pl.policy = c.policy
      /\ pl.assignment = AssignmentAction(cfg, c.policy)
  BY <1>1
<1>10. \A s \in pl.newproxy : cfg.proxies[pl.proxy[s]] = Absent
  BY <1>3, <1>4, <1>5, <1>9 DEF ProxiesOf
<1>11. \A s \in pl.newpolicy : cfg.policies[pl.policy[s]] = Absent
  BY <1>3, <1>4, <1>6, <1>9 DEF PoliciesOf
<1> QED BY <1>7, <1>8, <1>9, <1>10, <1>11

-----------------------------------------------------------------------------
(* The invariant of a run, whoever else writes *)

(* Between the second read and the end of the run: the adapter works on    *)
(* objects that were not there at the second read.                         *)
Engaged ==
  /\ todo \subseteq Work(plan) /\ undo \subseteq Work(plan)
  /\ \A s \in plan.newproxy : before.proxies[plan.proxy[s]] = Absent
  /\ \A s \in plan.newpolicy : before.policies[plan.policy[s]] = Absent
  /\ plan.assignment \in {"assign", "move"} => SelectedDevice \in Device

RunInv == TypeOK /\ (pc \notin {"idle", "planned"} => Engaged)

(* The action constraint of PresentUntouched, as a step formula.           *)
Untouched ==
  edits' = edits /\ pc \in {"work", "undo"} /\ exit' # "killed" => KeepsPresent

(* A step of the work of an engaged run keeps what was there.              *)
LEMMA WorkKeepsPresent ==
  ASSUME TypeOK, Engaged, plan \in Plan, NEW t \in Work(plan),
         running' = Effect(running, plan, t)
  PROVE  running' \in Config /\ KeepsPresent
<1>1. t \in Step /\ (t[1] = 3 => SelectedDevice \in Device)
  BY StepShape DEF Work, Engaged
<1>2. running \in Config BY DEF TypeOK
<1>3. /\ t[1] = 1 => t[2] \in plan.newproxy
      /\ t[1] = 2 => t[2] \in plan.newpolicy
  BY DEF Work
<1> QED BY <1>1, <1>2, <1>3, EffectFrame DEF KeepsPresent, Engaged, ProxiesOf, PoliciesOf

(* So does a step of its rollback.                                         *)
LEMMA UndoKeepsPresent ==
  ASSUME TypeOK, Engaged, plan \in Plan, NEW t \in Work(plan),
         running' = Reversal(running, plan, before, t)
  PROVE  running' \in Config /\ KeepsPresent
<1>1. t \in Step /\ (t[1] = 3 => SelectedDevice \in Device)
  BY StepShape DEF Work, Engaged
<1>2. running \in Config /\ before \in Config BY DEF TypeOK
<1>3. /\ t[1] = 1 => t[2] \in plan.newproxy
      /\ t[1] = 2 => t[2] \in plan.newpolicy
  BY DEF Work
<1>4. running' \in Config
  BY <1>1, <1>2, ReversalFrame
<1>5. \A i \in ProxyIndex :
        running'.proxies[i] # running.proxies[i] => t[1] = 1 /\ i = plan.proxy[t[2]]
  BY ZenonT(100), <1>1, <1>2, ReversalFrame
<1>6. \A j \in PolicyIndex :
        running'.policies[j] # running.policies[j] => t[1] = 2 /\ j = plan.policy[t[2]]
  BY ZenonT(100), <1>1, <1>2, ReversalFrame
<1>7. \A d \in Device :
        running'.assigned[d] # running.assigned[d] => t[1] = 3 /\ d = SelectedDevice
  BY ZenonT(100), <1>1, <1>2, ReversalFrame
<1> QED BY <1>3, <1>4, <1>5, <1>6, <1>7 DEF KeepsPresent, Engaged, ProxiesOf, PoliciesOf

(* A command that fails has had its effect or none.                        *)
LEMMA FailsSplit ==
  ASSUME NEW cfg, NEW cfg2, Fails(cfg, cfg2)
  PROVE  /\ running' = cfg \/ (LostReply /\ running' = cfg2)
         /\ faults < MaxFaults /\ faults' = faults + 1
<1>1. CASE LostReply
  BY <1>1 DEF Fails, Fault
<1>2. CASE ~LostReply
  BY <1>2 DEF Fails, Fault
<1> QED BY <1>1, <1>2

(* An edit by an administrator leaves a configuration of the right shape.  *)
LEMMA EditTyped ==
  ASSUME TypeOK, Administrator
  PROVE  /\ running' \in Config /\ startup' \in Config
         /\ edits < MaxEdits /\ edits' = edits + 1
         /\ UNCHANGED <<adapter, faults>>
<1>1. running \in Config /\ startup \in Config BY DEF TypeOK
<1>2. ForeignProxy \in Proxy /\ BlankPolicy \in Policy
  <2>1. 0 \in 0..Profiles BY RouterAssumption
  <2>2. BlankProxy \in Proxy BY <2>1 DEF BlankProxy, Proxy
  <2>3. ForeignProxy \in Proxy BY <2>2 DEF ForeignProxy, Proxy
  <2> QED BY <2>1, <2>3 DEF BlankPolicy, Policy
<1>3. ASSUME NEW i \in ProxyIndex, NEW x \in Proxy \cup {Absent}
      PROVE  WithProxy(running, i, x) \in Config
  BY <1>1 DEF WithProxy, Config
<1>4. ASSUME NEW j \in PolicyIndex, NEW y \in Policy \cup {Absent}
      PROVE  WithPolicy(running, j, y) \in Config
  BY <1>1 DEF WithPolicy, Config
<1>5. ASSUME NEW d \in Device, NEW j \in PoliciesOf(running) \cup {Absent}
      PROVE  [running EXCEPT !.assigned[d] = j] \in Config
  <2> DEFINE new == [running EXCEPT !.assigned[d] = j]
  <2>1. j \in PolicyIndex \cup {Absent} BY DEF PoliciesOf
  <2>2. /\ new.proxies = running.proxies /\ new.policies = running.policies
        /\ new.guard = running.guard
        /\ new.assigned = [running.assigned EXCEPT ![d] = j]
    BY <1>1 DEF Config
  <2>3. new.assigned \in [Device -> PolicyIndex \cup {Absent}]
    BY <1>1, <2>1, <2>2 DEF Config
  <2>4. new = [proxies |-> new.proxies, policies |-> new.policies,
               assigned |-> new.assigned, guard |-> new.guard]
    BY <1>1 DEF Config
  <2> HIDE DEF new
  <2>5. new \in Config
    BY <1>1, <2>2, <2>3, <2>4 DEF Config
  <2> QED BY <2>5 DEF new
<1>6. ASSUME NEW g \in Guard \ {running.guard}
      PROVE  [running EXCEPT !.guard = g] \in Config
  BY <1>1 DEF Config
<1>7. \E cfg2 \in Config : Foreign(cfg2)
  <2>1. CASE \E i \in ProxyIndex :
               Foreign(WithProxy(running, i, IF running.proxies[i] = Absent THEN ForeignProxy ELSE Absent))
    BY <1>2, <1>3, <2>1
  <2>2. CASE \E j \in PolicyIndex :
               Foreign(WithPolicy(running, j, IF running.policies[j] = Absent THEN BlankPolicy ELSE Absent))
    BY <1>2, <1>4, <2>2
  <2>3. CASE \E d \in Device, j \in PoliciesOf(running) \cup {Absent} :
               Foreign([running EXCEPT !.assigned[d] = j])
    BY <1>5, <2>3
  <2>4. CASE \E g \in Guard \ {running.guard} : Foreign([running EXCEPT !.guard = g])
    BY <1>6, <2>4
  <2> QED BY <2>1, <2>2, <2>3, <2>4 DEF Administrator
<1> QED BY <1>1, <1>7 DEF Administrator, Foreign

(* A run that ends is idle and has nothing left to do or to undo.          *)
LEMMA EndTyped ==
  ASSUME TypeOK, NEW status \in Exit, End(status),
         running' \in Config, startup' \in Config,
         faults' \in 0..MaxFaults, edits' \in 0..MaxEdits
  PROVE  RunInv'
BY DEF TypeOK, RunInv, End

(* A run that goes on to another label keeps its plan and its lists.       *)
LEMMA GoToTyped ==
  ASSUME RunInv, Engaged, pc # "idle",
         NEW label \in {"work", "save", "recheck", "undo", "undosave", "undocheck"},
         GoTo(label),
         running' \in Config, startup' \in Config,
         faults' \in 0..MaxFaults, edits' \in 0..MaxEdits
  PROVE  RunInv'
BY DEF TypeOK, RunInv, GoTo, Engaged, Work

(* RunInv holds at the start.                                              *)
LEMMA RunInit == Init => RunInv
BY ApplyAssumption DEF Init, RunInv, TypeOK, Exit

(* Every step keeps RunInv and keeps what was present untouched.           *)
LEMMA RunStep ==
  ASSUME RunInv, [Next]_vars
  PROVE  RunInv' /\ [Untouched]_vars
<1> USE ApplyAssumption
<1>1. /\ TypeOK
      /\ running \in Config /\ startup \in Config /\ before \in Config
      /\ faults \in 0..MaxFaults /\ edits \in 0..MaxEdits
      /\ pc \notin {"idle", "planned"} => Engaged /\ plan \in Plan
  BY DEF RunInv, TypeOK
<1>2. ASSUME Fault PROVE faults' \in 0..MaxFaults
  BY <1>1, <1>2 DEF Fault
<1>3. ASSUME pc \notin {"work", "undo"} PROVE Untouched
  BY <1>3 DEF Untouched
<1>4. ASSUME running' = running PROVE Untouched
  BY <1>4 DEF Untouched, KeepsPresent
<1>5. CASE Command
  <2>1. CASE \E m \in BOOLEAN : Start(m)
    <3>1. PICK m \in BOOLEAN : Start(m) BY <2>1
    <3>2. PICK pl \in Plans(running, m) : plan' = pl BY <3>1 DEF Start
    <3>3. plan' \in Plan BY <1>1, <3>2, PlansSound
    <3>4. RunInv' BY <1>1, <3>1, <3>3 DEF Start, RunInv, TypeOK, Exit, router
    <3> QED BY <1>3, <3>1, <3>4 DEF Start
  <2>2. CASE \E m \in BOOLEAN : PlanRefused(m)
    <3>1. RunInv' BY <1>1, <2>2 DEF PlanRefused, RunInv, TypeOK, Exit, router
    <3> QED BY <1>3, <2>2, <3>1 DEF PlanRefused
  <2> QED BY <1>5, <2>1, <2>2 DEF Command
<1>6. CASE Confirm
  <2>1. /\ plan \in Plan
        /\ \A s \in plan.newproxy : running.proxies[plan.proxy[s]] = Absent
        /\ \A s \in plan.newpolicy : running.policies[plan.policy[s]] = Absent
        /\ plan.assignment \in {"assign", "move"} => SelectedDevice \in Device
    <3>1. plan \in Plans(running, plan.assignment = "move")
      BY <1>6 DEF Confirm, PlanIsFresh
    <3> QED BY <1>1, <3>1, PlansSound
  <2>2. Work(plan) \subseteq Step BY DEF Work
  <2>3. Engaged' BY <1>6, <2>1 DEF Confirm, Engaged
  <2>4. TypeOK' BY <1>1, <1>6, <2>1, <2>2 DEF Confirm, TypeOK, router
  <2> QED BY <1>3, <1>6, <2>3, <2>4 DEF Confirm, RunInv
<1>7. CASE Noop
  <2>1. RunInv' BY <1>1, <1>7 DEF Noop, RunInv, TypeOK, Exit, router
  <2> QED BY <1>3, <1>7, <2>1 DEF Noop
<1>8. CASE Stale
  BY <1>1, <1>3, <1>8, EndTyped DEF Stale, Exit, router
<1>9. CASE Send
  <2>1. pc = "work" /\ Engaged /\ plan \in Plan BY <1>1, <1>9 DEF Send
  <2>2. PICK t \in todo : /\ Current(t)
                          /\ running' = Effect(running, plan, t)
                          /\ todo' = todo \ {t}
                          /\ undo' = IF Undoable(t) THEN undo \cup {t} ELSE undo
    BY <1>9 DEF Send
  <2>3. t \in Work(plan) /\ t \in Step BY <2>1, <2>2 DEF Engaged, Work
  <2>4. running' \in Config /\ KeepsPresent
    BY <1>1, <2>1, <2>2, <2>3, WorkKeepsPresent
  <2>5. /\ todo' \subseteq todo
        /\ undo' \subseteq undo \cup {t}
        /\ t \in undo' \ undo => t[3] = 1
    BY <2>2 DEF Undoable
  <2>6. Engaged' BY <1>9, <2>1, <2>3, <2>5 DEF Send, Engaged, Work
  <2>7. TypeOK' BY <1>1, <1>9, <2>3, <2>4, <2>5 DEF Send, TypeOK
  <2> QED BY <1>9, <2>4, <2>6, <2>7 DEF Send, RunInv, Untouched
<1>10. CASE Verify
  BY <1>1, <1>4, <1>10, GoToTyped DEF Verify, router
<1>11. CASE Save
  BY <1>1, <1>4, <1>11, GoToTyped DEF Save
<1>12. CASE Recheck
  BY <1>1, <1>4, <1>12, GoToTyped, EndTyped DEF Recheck, router, Exit
<1>13. CASE Undo
  <2>1. pc = "undo" /\ Engaged /\ plan \in Plan BY <1>1, <1>13 DEF Undo
  <2>2. PICK t \in undo : /\ running' = Reversal(running, plan, before, t)
                          /\ undo' = undo \ {t}
    BY <1>13 DEF Undo
  <2>3. t \in Work(plan) BY <2>1, <2>2 DEF Engaged
  <2>4. running' \in Config /\ KeepsPresent
    BY <1>1, <2>1, <2>2, <2>3, UndoKeepsPresent
  <2>5. Engaged' BY <1>13, <2>1, <2>2 DEF Undo, Engaged, Work
  <2>6. TypeOK' BY <1>1, <1>13, <2>2, <2>4 DEF Undo, TypeOK
  <2> QED BY <1>13, <2>4, <2>5, <2>6 DEF Undo, RunInv, Untouched
<1>14. CASE UndoSave
  BY <1>1, <1>4, <1>14, GoToTyped DEF UndoSave
<1>15. CASE UndoCheck
  BY <1>1, <1>4, <1>15, EndTyped DEF UndoCheck, router, Exit
<1>16. CASE NotStarted
  BY <1>1, <1>2, <1>3, <1>16, EndTyped DEF NotStarted, router, Exit
<1>17. CASE SendFails
  <2>1. pc = "work" /\ Engaged /\ plan \in Plan BY <1>1, <1>17 DEF SendFails
  <2>2. PICK t \in todo : Fails(running, Effect(running, plan, t))
    BY <1>17 DEF SendFails
  <2>3. t \in Work(plan) BY <2>1, <2>2 DEF Engaged
  <2>4. running' \in Config /\ KeepsPresent
    <3>1. CASE running' = running BY <1>1, <3>1 DEF KeepsPresent
    <3>2. CASE running' = Effect(running, plan, t)
      BY <1>1, <2>1, <2>3, <3>2, WorkKeepsPresent
    <3> QED BY <2>2, <3>1, <3>2, FailsSplit
  <2>5. faults' \in 0..MaxFaults BY <1>1, <2>2, FailsSplit
  <2>6. RunInv' BY <1>1, <1>17, <2>1, <2>4, <2>5, GoToTyped DEF SendFails
  <2> QED BY <2>4, <2>6 DEF Untouched
<1>18. CASE SaveFails
  <2>1. startup' \in Config BY <1>1, <1>18 DEF SaveFails
  <2> QED BY <1>1, <1>2, <1>4, <1>18, <2>1, GoToTyped DEF SaveFails
<1>19. CASE ReadFails
  <2>1. pc \in {"recheck", "work"} BY <1>19 DEF ReadFails
  <2> QED BY <1>1, <1>2, <1>4, <1>19, <2>1, GoToTyped DEF ReadFails, router
<1>20. CASE UndoFails
  <2>1. pc = "undo" /\ Engaged /\ plan \in Plan BY <1>1, <1>20 DEF UndoFails
  <2>2. PICK t \in undo : Fails(running, Reversal(running, plan, before, t))
    BY <1>20 DEF UndoFails
  <2>3. t \in Work(plan) BY <2>1, <2>2 DEF Engaged
  <2>4. running' \in Config /\ KeepsPresent
    <3>1. CASE running' = running BY <1>1, <3>1 DEF KeepsPresent
    <3>2. CASE running' = Reversal(running, plan, before, t)
      BY <1>1, <2>1, <2>3, <3>2, UndoKeepsPresent
    <3> QED BY <2>2, <3>1, <3>2, FailsSplit
  <2>5. faults' \in 0..MaxFaults BY <1>1, <2>2, FailsSplit
  <2>6. RunInv' BY <1>1, <1>20, <2>4, <2>5, EndTyped DEF UndoFails, Exit
  <2> QED BY <2>4, <2>6 DEF Untouched
<1>21. CASE UndoSaveFails
  <2>1. startup' \in Config BY <1>1, <1>21 DEF UndoSaveFails
  <2> QED BY <1>1, <1>2, <1>4, <1>21, <2>1, EndTyped DEF UndoSaveFails, Exit
<1>22. CASE UndoReadFails
  BY <1>1, <1>2, <1>4, <1>22, EndTyped DEF UndoReadFails, router, Exit
<1>23. CASE Kill
  BY <1>1, <1>2, <1>4, <1>23, EndTyped DEF Kill, router, Exit
<1>24. CASE Restart
  <2>1. CASE pc = "idle"
    <3>1. RunInv' BY <1>1, <1>2, <1>24, <2>1 DEF Restart, adapter, RunInv, TypeOK
    <3> QED BY <1>3, <2>1, <3>1
  <2>2. CASE pc # "idle"
    <3>1. End("killed") BY <1>24, <2>2 DEF Restart
    <3>2. RunInv' BY <1>1, <1>2, <1>24, <3>1, EndTyped DEF Restart, Exit
    <3> QED BY <3>1, <3>2 DEF End, Untouched
  <2> QED BY <2>1, <2>2
<1>25. CASE RestoreStartup
  <2>1. RunInv' BY <1>1, <1>25 DEF RestoreStartup, adapter, RunInv, TypeOK
  <2> QED BY <1>3, <1>25, <2>1 DEF RestoreStartup
<1>26. CASE Administrator
  <2>1. /\ running' \in Config /\ startup' \in Config
        /\ edits < MaxEdits /\ edits' = edits + 1
        /\ UNCHANGED <<adapter, faults>>
    BY <1>1, <1>26, EditTyped
  <2>2. RunInv' BY <1>1, <2>1 DEF adapter, RunInv, TypeOK, Engaged, Work
  <2>3. edits' # edits BY <1>1, <2>1
  <2> QED BY <2>2, <2>3 DEF Untouched
<1>27. CASE UNCHANGED vars
  BY <1>1, <1>27 DEF vars, RunInv, TypeOK, Engaged, Work
<1> QED
  BY <1>5, <1>6, <1>7, <1>8, <1>9, <1>10, <1>11, <1>12, <1>13, <1>14, <1>15, <1>16, <1>17,
     <1>18, <1>19, <1>20, <1>21, <1>22, <1>23, <1>24, <1>25, <1>26, <1>27
  DEF Next, Proceed, Failure

(* TypeOK: whatever fails and whoever edits, the adapter's plan and lists  *)
(* stay of the shape apply_live_plan works with.                           *)
THEOREM AdapterTyped == Spec => []TypeOK
<1>1. Spec => []RunInv
  BY RunInit, RunStep, PTL DEF Spec
<1>2. RunInv => TypeOK
  BY DEF RunInv
<1> QED BY <1>1, <1>2, PTL

(* PresentUntouched: the commands and the rollback of apply_live_plan leave *)
(* alone every object its second read saw, and every other device.         *)
THEOREM OthersUntouched == Spec => PresentUntouched
<1>1. Spec => []RunInv
  BY RunInit, RunStep, PTL DEF Spec
<1>2. RunInv /\ [Next]_vars => [Untouched]_vars
  BY RunStep
<1> QED BY <1>1, <1>2, PTL DEF Spec, PresentUntouched, Untouched

-----------------------------------------------------------------------------
(* A run that is the only writer, over a channel that reports truly *)

Alone == MaxEdits = 0 /\ LostReply = FALSE

(* Whatever differs from what the second read saw is on the rollback list. *)
Traced ==
  /\ \A i \in ProxyIndex :
       running.proxies[i] # before.proxies[i] => \E t \in undo : t[1] = 1 /\ plan.proxy[t[2]] = i
  /\ \A j \in PolicyIndex :
       running.policies[j] # before.policies[j] => \E t \in undo : t[1] = 2 /\ plan.policy[t[2]] = j
  /\ \A d \in Device :
       running.assigned[d] # before.assigned[d] => d = SelectedDevice /\ \E t \in undo : t[1] = 3
  /\ running.guard = before.guard

(* The command that opens an object, or changes the assignment, is still   *)
(* to be sent or can be undone.                                            *)
First(t) == <<t[1], t[2], 1>>

Opened == \A t \in todo : First(t) \in todo \cup undo

(* Nothing but the objects a plan creates differs from what it was made of.*)
Within(new, old, pl) ==
  /\ \A i \in ProxyIndex :
       new.proxies[i] # old.proxies[i] => \E s \in pl.newproxy : pl.proxy[s] = i
  /\ \A j \in PolicyIndex :
       new.policies[j] # old.policies[j] => \E s \in pl.newpolicy : pl.policy[s] = j

Repeatable == \E pl \in Plans(running, FALSE) : ~WriteRequired(pl)

Busy == pc \notin {"idle", "planned"}

AloneInv ==
  /\ edits = 0
  /\ Busy => Traced /\ plan \in Plans(before, plan.assignment = "move")
  /\ pc # "idle" => exit = "none"
  /\ pc = "work" => Opened
  /\ pc \in {"save", "recheck"} => InForce
  /\ pc = "recheck" => startup = running
  /\ pc = "undocheck" \/ exit = "rolled-back" => running = before /\ startup = running
  /\ exit = "ok" => startup = running /\ Repeatable

-----------------------------------------------------------------------------
(* Planning again for the result of a plan *)

(* What a plan says of the configuration it was made of.                   *)
LEMMA PlanReads ==
  ASSUME NEW cfg \in Config, NEW m, NEW pl \in Plans(cfg, m)
  PROVE  /\ pl.newproxy = {s \in Slot : ServingProxies(cfg, s) = {}}
         /\ pl.newpolicy = {s \in Slot : ServingPolicies(cfg, pl.proxy[s]) = {}}
         /\ ProxyChoice(cfg, pl.proxy, pl.newproxy)
         /\ PolicyChoice(cfg, pl.proxy, pl.policy, pl.newpolicy)
<1> DEFINE newproxy == {s \in Slot : ServingProxies(cfg, s) = {}}
           newpolicy(f) == {s \in Slot : ServingPolicies(cfg, f[s]) = {}}
<1>1. PICK c \in [proxy : [Slot -> ProxyIndex], policy : [Slot -> PolicyIndex]] :
        /\ ProxyChoice(cfg, c.proxy, newproxy)
        /\ PolicyChoice(cfg, c.proxy, c.policy, newpolicy(c.proxy))
        /\ pl = [proxy |-> c.proxy, newproxy |-> newproxy,
                 policy |-> c.policy, newpolicy |-> newpolicy(c.proxy),
                 assignment |-> AssignmentAction(cfg, c.policy)]
  BY DEF Plans
<1> HIDE DEF newproxy, newpolicy
<1>2. /\ pl.newproxy = newproxy /\ pl.proxy = c.proxy
      /\ pl.newpolicy = newpolicy(c.proxy) /\ pl.policy = c.policy
  BY <1>1
<1>3. QED
  BY <1>1, <1>2 DEF newproxy, newpolicy

(* The proxies of a plan that is in force are chosen again, and none is    *)
(* created: every slot is served by its proxy and by no other.             *)
LEMMA ProxiesAgain ==
  ASSUME NEW old \in Config, NEW new \in Config, NEW m, NEW pl \in Plans(old, m),
         Applied(new, pl), Within(new, old, pl)
  PROVE  /\ \A s \in Slot : ServingProxies(new, s) = {pl.proxy[s]}
         /\ ProxyChoice(new, pl.proxy, {})
<1>1. /\ pl \in Plan /\ ProxyChoice(old, pl.proxy, pl.newproxy)
      /\ pl.newproxy = {s \in Slot : ServingProxies(old, s) = {}}
      /\ pl.newproxy \subseteq Slot
  BY PlansSound, PlanReads DEF Plan
<1>2. \A s \in Slot : /\ pl.proxy[s] \in ProxiesOf(new)
                      /\ ProxyServes(new.proxies[pl.proxy[s]], s)
                      /\ s \in pl.newproxy => new.proxies[pl.proxy[s]].name = s
  BY <1>1 DEF Applied, Plan, ProxiesOf
<1>3. \A s \in Slot, r \in Slot, i \in ProxyIndex :
        ProxyServes(new.proxies[i], s) /\ ProxyServes(new.proxies[i], r) => s = r
  BY DEF ProxyServes
<1>4. \A i \in ProxyIndex : \/ new.proxies[i] = old.proxies[i]
                            \/ \E r \in pl.newproxy : pl.proxy[r] = i
  BY DEF Within
<1>5. ASSUME NEW s \in Slot, NEW i \in ServingProxies(new, s)
      PROVE  i = pl.proxy[s]
  <2>1. i \in ProxyIndex /\ ProxyServes(new.proxies[i], s) /\ new.proxies[i] # Absent
    BY <1>5 DEF ServingProxies, ProxiesOf
  <2>2. CASE new.proxies[i] = old.proxies[i]
    <3>1. i \in ServingProxies(old, s)
      BY <2>1, <2>2 DEF ServingProxies, ProxiesOf
    <3>2. QED
      BY <1>1, <3>1 DEF ProxyChoice
  <2>3. CASE \E r \in pl.newproxy : pl.proxy[r] = i
    BY <1>1, <1>2, <1>3, <2>1, <2>3
  <2>4. QED
    BY <1>4, <2>1, <2>2, <2>3
<1>6. \A s \in Slot : ServingProxies(new, s) = {pl.proxy[s]}
  BY <1>2, <1>5 DEF ServingProxies
<1>7. ASSUME NEW s \in Slot, NEW i \in NamedProxies(new, s)
      PROVE  ProxyServes(new.proxies[i], s)
  <2>1. i \in ProxyIndex /\ new.proxies[i].name = s /\ new.proxies[i] # Absent
    BY <1>7 DEF NamedProxies, ProxiesOf
  <2>2. CASE new.proxies[i] = old.proxies[i]
    <3>1. i \in NamedProxies(old, s)
      BY <2>1, <2>2 DEF NamedProxies, ProxiesOf
    <3>2. QED
      BY <1>1, <2>2, <3>1 DEF ProxyChoice
  <2>3. CASE \E r \in pl.newproxy : pl.proxy[r] = i
    BY <1>1, <1>2, <2>1, <2>3
  <2>4. QED
    BY <1>4, <2>1, <2>2, <2>3
<1>8. ASSUME NEW s \in Slot
      PROVE  AtMostOne(NamedProxies(new, s))
  <2>1. \A i \in NamedProxies(new, s) : i \in ServingProxies(new, s)
    BY <1>7 DEF NamedProxies, ServingProxies
  <2>2. QED
    BY <1>6, <2>1 DEF AtMostOne
<1>9. LowestFree(pl.proxy, {}, ProxiesOf(new))
  BY DEF LowestFree
<1>10. QED
  BY <1>6, <1>7, <1>8, <1>9 DEF ProxyChoice

(* So are its policies: a proxy serves one slot, and the policy that       *)
(* permits it alone is the one of that slot.                               *)
LEMMA PoliciesAgain ==
  ASSUME NEW old \in Config, NEW new \in Config, NEW m, NEW pl \in Plans(old, m),
         Applied(new, pl), Within(new, old, pl)
  PROVE  /\ \A s \in Slot : ServingPolicies(new, pl.proxy[s]) = {pl.policy[s]}
         /\ PolicyChoice(new, pl.proxy, pl.policy, {})
<1>1. /\ pl \in Plan /\ PolicyChoice(old, pl.proxy, pl.policy, pl.newpolicy)
      /\ pl.newpolicy = {s \in Slot : ServingPolicies(old, pl.proxy[s]) = {}}
      /\ pl.newpolicy \subseteq Slot
  <2>1. pl \in Plan
    BY PlansSound
  <2>2. /\ PolicyChoice(old, pl.proxy, pl.policy, pl.newpolicy)
        /\ pl.newpolicy = {s \in Slot : ServingPolicies(old, pl.proxy[s]) = {}}
    BY PlanReads
  <2>3. QED
    BY <2>1, <2>2
<1>2. \A s \in Slot : /\ pl.policy[s] \in PoliciesOf(new)
                      /\ PolicyServes(new.policies[pl.policy[s]], pl.proxy[s])
                      /\ s \in pl.newpolicy => new.policies[pl.policy[s]].name = s
  BY <1>1 DEF Applied, Plan, PoliciesOf
<1>3. \A s \in Slot, r \in Slot : pl.proxy[s] = pl.proxy[r] => s = r
  <2>1. \A s \in Slot : ServingProxies(new, s) = {pl.proxy[s]}
    BY ProxiesAgain
  <2>2. \A s \in Slot : new.proxies[pl.proxy[s]].upstream = s
    BY <2>1 DEF ServingProxies, ProxyServes
  <2>3. QED
    BY <2>2
<1>4. \A j \in PolicyIndex : \/ new.policies[j] = old.policies[j]
                             \/ \E r \in pl.newpolicy : pl.policy[r] = j
  BY DEF Within
<1>5. ASSUME NEW s \in Slot, NEW j \in ServingPolicies(new, pl.proxy[s])
      PROVE  j = pl.policy[s]
  <2>1. /\ j \in PolicyIndex /\ PolicyServes(new.policies[j], pl.proxy[s])
        /\ new.policies[j] # Absent
    BY <1>5 DEF ServingPolicies, PoliciesOf
  <2>2. CASE new.policies[j] = old.policies[j]
    <3>1. j \in ServingPolicies(old, pl.proxy[s])
      BY <2>1, <2>2 DEF ServingPolicies, PoliciesOf
    <3>2. QED
      BY <1>1, <3>1 DEF PolicyChoice
  <2>3. ASSUME NEW r \in pl.newpolicy, pl.policy[r] = j
        PROVE  j = pl.policy[s]
    <3>1. {pl.proxy[r]} = {pl.proxy[s]}
      BY <1>1, <1>2, <2>1, <2>3 DEF PolicyServes
    <3>2. r = s
      BY <1>1, <1>3, <3>1
    <3>3. QED
      BY <2>3, <3>2
  <2>4. QED
    BY <1>4, <2>1, <2>2, <2>3
<1>6. \A s \in Slot : ServingPolicies(new, pl.proxy[s]) = {pl.policy[s]}
  BY <1>2, <1>5 DEF ServingPolicies
<1>7. ASSUME NEW s \in Slot, NEW j \in NamedPolicies(new, s)
      PROVE  PolicyServes(new.policies[j], pl.proxy[s])
  <2>1. j \in PolicyIndex /\ new.policies[j].name = s /\ new.policies[j] # Absent
    BY <1>7 DEF NamedPolicies, PoliciesOf
  <2>2. CASE new.policies[j] = old.policies[j]
    <3>1. j \in NamedPolicies(old, s)
      BY <2>1, <2>2 DEF NamedPolicies, PoliciesOf
    <3>2. QED
      BY <1>1, <2>2, <3>1 DEF PolicyChoice
  <2>3. CASE \E r \in pl.newpolicy : pl.policy[r] = j
    BY <1>1, <1>2, <2>1, <2>3
  <2>4. QED
    BY <1>4, <2>1, <2>2, <2>3
<1>8. ASSUME NEW s \in Slot
      PROVE  AtMostOne(NamedPolicies(new, s))
  <2>1. \A j \in NamedPolicies(new, s) : j \in ServingPolicies(new, pl.proxy[s])
    BY <1>7 DEF NamedPolicies, ServingPolicies
  <2>2. QED
    BY <1>6, <2>1 DEF AtMostOne
<1>9. LowestFree(pl.policy, {}, PoliciesOf(new))
  BY DEF LowestFree
<1>10. QED
  BY <1>6, <1>7, <1>8, <1>9 DEF PolicyChoice

(* With a plan in force the next plan changes nothing, whether or not a    *)
(* move is allowed.                                                        *)
LEMMA PlanAgain ==
  ASSUME NEW old \in Config, NEW new \in Config, NEW m, NEW pl \in Plans(old, m),
         Applied(new, pl), Within(new, old, pl), NEW allow_move
  PROVE  \E again \in Plans(new, allow_move) : ~WriteRequired(again)
<1> DEFINE c == [proxy |-> pl.proxy, policy |-> pl.policy]
           newpolicy(f) == {s \in Slot : ServingPolicies(new, f[s]) = {}}
           again == [proxy |-> c.proxy, newproxy |-> {}, policy |-> c.policy, newpolicy |-> {},
                     assignment |-> AssignmentAction(new, c.policy)]
<1>1. c \in [proxy : [Slot -> ProxyIndex], policy : [Slot -> PolicyIndex]]
  BY PlansSound DEF Plan
<1>2. /\ {s \in Slot : ServingProxies(new, s) = {}} = {}
      /\ ProxyChoice(new, c.proxy, {})
  BY ProxiesAgain
<1>3. newpolicy(c.proxy) = {} /\ PolicyChoice(new, c.proxy, c.policy, {})
  BY PoliciesAgain
<1>4. AssignmentAction(new, c.policy) \in {"none", "reuse"}
  BY DEF AssignmentAction, Applied
<1>5. again \in Plans(new, allow_move)
  BY <1>1, <1>2, <1>3, <1>4 DEF Plans
<1>6. ~WriteRequired(again)
  BY <1>4 DEF WriteRequired
<1>7. QED
  BY <1>5, <1>6

-----------------------------------------------------------------------------
(* The steps of a run that is alone *)

(* Between two runs only the way the last one ended promises anything.     *)
LEMMA AloneRests ==
  ASSUME pc' = "idle", exit' \notin {"ok", "rolled-back"}, edits' = 0
  PROVE  AloneInv'
BY DEF AloneInv, Busy

(* A run that goes on without a command of its own.                        *)
LEMMA AloneGoes ==
  ASSUME AloneInv, Busy, NEW label \in {"save", "recheck", "undo", "undocheck"}, GoTo(label),
         running' = running, edits' = edits,
         label \in {"save", "recheck"} => InForce,
         label = "recheck" => startup' = running,
         label = "undocheck" => running = before /\ startup' = running
  PROVE  AloneInv'
<1>1. UNCHANGED <<running, before, plan, undo, todo, exit, edits>> /\ pc' = label
  BY DEF GoTo
<1>2. Traced' = Traced /\ InForce' = InForce
  BY <1>1 DEF Traced, InForce
<1>3. exit = "none" /\ Traced /\ plan \in Plans(before, plan.assignment = "move")
  BY DEF AloneInv, Busy
<1>4. QED
  BY <1>1, <1>2, <1>3 DEF AloneInv, Busy

(* A command leaves what it changes on the rollback list: it opens the     *)
(* object itself, or the command that did has been sent before it.         *)
LEMMA AloneSends ==
  ASSUME RunInv, AloneInv, Send
  PROVE  AloneInv'
<1>1. PICK t \in todo : /\ Current(t)
                        /\ running' = Effect(running, plan, t)
                        /\ todo' = todo \ {t}
                        /\ undo' = IF Undoable(t) THEN undo \cup {t} ELSE undo
  BY DEF Send
<1>2. pc = "work" /\ UNCHANGED <<startup, pc, plan, before, exit, edits>>
  BY DEF Send
<1>3. /\ running \in Config /\ plan \in Plan /\ todo \subseteq Step /\ t \in Step
      /\ t[1] = 3 => SelectedDevice \in Device
      /\ Traced /\ Opened
  BY <1>2, StepShape DEF RunInv, TypeOK, Engaged, Work, AloneInv, Busy
<1>4. undo \subseteq undo'
  BY <1>1
<1>5. \E u \in undo' : u[1] = t[1] /\ u[2] = t[2]
  <2>1. t = <<t[1], t[2], t[3]>> /\ t[3] \in 1..5
    BY <1>3, StepShape
  <2>2. CASE t[3] = 1
    BY <1>1, <2>2 DEF Undoable
  <2>3. CASE t[3] # 1
    <3>1. First(t) # t /\ ~Earlier(t, First(t)) /\ First(t)[1] = t[1] /\ First(t)[2] = t[2]
      <4>1. First(t)[1] = t[1] /\ First(t)[2] = t[2] /\ First(t)[3] = 1
        BY DEF First
      <4>2. t[1] \in Int /\ t[2] \in Int /\ t[3] \in Int /\ ~(t[3] < 1)
        BY <1>3, <2>1, StepShape, RouterAssumption DEF Slot
      <4>3. QED
        BY <2>3, <4>1, <4>2 DEF Earlier
    <3>2. First(t) \notin todo
      BY <1>1, <3>1 DEF Current
    <3>3. First(t) \in undo
      BY <1>1, <1>3, <3>2 DEF Opened
    <3>4. QED
      BY <1>4, <3>1, <3>3
  <2>4. QED
    BY <2>2, <2>3
<1>6. /\ running'.guard = running.guard
      /\ \A i \in ProxyIndex :
           running'.proxies[i] # running.proxies[i] => t[1] = 1 /\ i = plan.proxy[t[2]]
      /\ \A j \in PolicyIndex :
           running'.policies[j] # running.policies[j] => t[1] = 2 /\ j = plan.policy[t[2]]
      /\ \A d \in Device :
           running'.assigned[d] # running.assigned[d] => t[1] = 3 /\ d = SelectedDevice
  BY <1>1, <1>3, EffectFrame
<1>7. Traced'
  <2>1. ASSUME NEW i \in ProxyIndex, running'.proxies[i] # before.proxies[i]
        PROVE  \E u \in undo' : u[1] = 1 /\ plan.proxy[u[2]] = i
    BY <1>3, <1>4, <1>5, <1>6, <2>1 DEF Traced
  <2>2. ASSUME NEW j \in PolicyIndex, running'.policies[j] # before.policies[j]
        PROVE  \E u \in undo' : u[1] = 2 /\ plan.policy[u[2]] = j
    BY <1>3, <1>4, <1>5, <1>6, <2>2 DEF Traced
  <2>3. ASSUME NEW d \in Device, running'.assigned[d] # before.assigned[d]
        PROVE  d = SelectedDevice /\ \E u \in undo' : u[1] = 3
    BY <1>3, <1>4, <1>5, <1>6, <2>3 DEF Traced
  <2>4. running'.guard = before.guard
    BY <1>3, <1>6 DEF Traced
  <2>5. QED
    BY <1>2, <2>1, <2>2, <2>3, <2>4 DEF Traced
<1>8. Opened'
  <2>1. ASSUME NEW u \in todo'
        PROVE  First(u) \in todo' \cup undo'
    <3>1. u \in todo /\ First(u) \in todo \cup undo
      BY <1>1, <1>3, <2>1 DEF Opened
    <3>2. First(u) = t => t[3] = 1
      BY DEF First
    <3>3. QED
      BY <1>1, <3>1, <3>2 DEF Undoable
  <2>2. QED
    BY <2>1 DEF Opened
<1>9. QED
  BY <1>2, <1>7, <1>8 DEF AloneInv, Busy

(* A command of the rollback puts back what its step had changed.          *)
LEMMA AloneUndoes ==
  ASSUME RunInv, AloneInv, Undo
  PROVE  AloneInv'
<1>1. PICK t \in undo : /\ running' = Reversal(running, plan, before, t)
                        /\ undo' = undo \ {t}
  BY DEF Undo
<1>2. pc = "undo" /\ UNCHANGED <<startup, pc, plan, before, todo, exit, edits>>
  BY DEF Undo
<1>3. /\ running \in Config /\ before \in Config /\ plan \in Plan /\ Traced
      /\ t \in Work(plan) /\ t \in Step /\ (t[1] = 3 => SelectedDevice \in Device)
      /\ undo \subseteq Step /\ Engaged
  BY <1>2 DEF RunInv, TypeOK, Engaged, Work, AloneInv, Busy
<1>4. /\ t[1] = 1 => before.proxies[plan.proxy[t[2]]] = Absent
      /\ t[1] = 2 => before.policies[plan.policy[t[2]]] = Absent
  BY <1>3 DEF Engaged, Work
<1>5. /\ running'.guard = running.guard
      /\ \A i \in ProxyIndex :
           running'.proxies[i] # running.proxies[i] => t[1] = 1 /\ i = plan.proxy[t[2]]
      /\ \A j \in PolicyIndex :
           running'.policies[j] # running.policies[j] => t[1] = 2 /\ j = plan.policy[t[2]]
      /\ \A d \in Device :
           running'.assigned[d] # running.assigned[d] => t[1] = 3 /\ d = SelectedDevice
      /\ t[1] = 1 => running'.proxies[plan.proxy[t[2]]] = Absent
      /\ t[1] = 2 => running'.policies[plan.policy[t[2]]] = Absent
      /\ t[1] = 3 => running'.assigned[SelectedDevice] = before.assigned[SelectedDevice]
  <2> DEFINE new == Reversal(running, plan, before, t)
  <2>1. /\ new.guard = running.guard
        /\ \A i \in ProxyIndex :
             new.proxies[i] # running.proxies[i] => t[1] = 1 /\ i = plan.proxy[t[2]]
        /\ \A j \in PolicyIndex :
             new.policies[j] # running.policies[j] => t[1] = 2 /\ j = plan.policy[t[2]]
        /\ \A d \in Device :
             new.assigned[d] # running.assigned[d] => t[1] = 3 /\ d = SelectedDevice
        /\ t[1] = 1 => new.proxies[plan.proxy[t[2]]] = Absent
        /\ t[1] = 2 => new.policies[plan.policy[t[2]]] = Absent
        /\ t[1] = 3 => new.assigned[SelectedDevice] = before.assigned[SelectedDevice]
    BY <1>3, ReversalFrame, ZenonT(60)
  <2>2. running' = new
    BY <1>1
  <2> HIDE DEF new
  <2>3. QED
    BY <2>1, <2>2
<1>6. ASSUME NEW i \in ProxyIndex, running'.proxies[i] # before.proxies[i]
      PROVE  \E u \in undo' : u[1] = 1 /\ plan.proxy[u[2]] = i
  <2>1. ~(t[1] = 1 /\ plan.proxy[t[2]] = i)
    BY <1>4, <1>5, <1>6
  <2>2. running.proxies[i] # before.proxies[i]
    BY <1>5, <1>6, <2>1
  <2>3. PICK u \in undo : u[1] = 1 /\ plan.proxy[u[2]] = i
    BY <1>3, <2>2 DEF Traced
  <2>4. QED
    BY <1>1, <2>1, <2>3
<1>7. ASSUME NEW j \in PolicyIndex, running'.policies[j] # before.policies[j]
      PROVE  \E u \in undo' : u[1] = 2 /\ plan.policy[u[2]] = j
  <2>1. ~(t[1] = 2 /\ plan.policy[t[2]] = j)
    BY <1>4, <1>5, <1>7
  <2>2. running.policies[j] # before.policies[j]
    BY <1>5, <1>7, <2>1
  <2>3. PICK u \in undo : u[1] = 2 /\ plan.policy[u[2]] = j
    BY <1>3, <2>2 DEF Traced
  <2>4. QED
    BY <1>1, <2>1, <2>3
<1>8. ASSUME NEW d \in Device, running'.assigned[d] # before.assigned[d]
      PROVE  d = SelectedDevice /\ \E u \in undo' : u[1] = 3
  <2>1. running.assigned[d] # before.assigned[d] /\ d = SelectedDevice
    BY <1>3, <1>5, <1>8 DEF Traced
  <2>2. t[1] # 3
    BY <1>5, <1>8, <2>1
  <2>3. QED
    BY <1>1, <1>3, <2>1, <2>2 DEF Traced
<1>9. Traced'
  BY <1>2, <1>3, <1>5, <1>6, <1>7, <1>8 DEF Traced
<1>10. QED
  BY <1>2, <1>9 DEF AloneInv, Busy

(* With an empty rollback list the configuration is the one that was read. *)
LEMMA NothingToUndo ==
  ASSUME TypeOK, Traced, undo = {}
  PROVE  running = before
<1>1. running \in Config /\ before \in Config
  BY DEF TypeOK
<1>2. \A i \in ProxyIndex : running.proxies[i] = before.proxies[i]
  BY DEF Traced
<1>3. \A j \in PolicyIndex : running.policies[j] = before.policies[j]
  BY DEF Traced
<1>4. \A d \in Device : running.assigned[d] = before.assigned[d]
  BY DEF Traced
<1>5. /\ running.proxies = before.proxies /\ running.policies = before.policies
      /\ running.assigned = before.assigned /\ running.guard = before.guard
  BY <1>1, <1>2, <1>3, <1>4 DEF Config, Traced
<1>6. QED
  BY <1>1, <1>5 DEF Config

(* A run that ends well leaves nothing for the next one.                   *)
LEMMA AloneSucceeds ==
  ASSUME RunInv, AloneInv, pc = "recheck"
  PROVE  Repeatable
<1>1. /\ running \in Config /\ before \in Config /\ Traced /\ Applied(running, plan)
      /\ plan \in Plans(before, plan.assignment = "move") /\ undo \subseteq Work(plan)
  BY DEF RunInv, TypeOK, Engaged, AloneInv, Busy, InForce
<1>2. Within(running, before, plan)
  BY <1>1 DEF Traced, Within, Work
<1>3. QED
  BY <1>1, <1>2, PlanAgain DEF Repeatable

(* What the saved configuration may become.                                *)
SavesWhole == startup' = before \/ Applied(startup', plan)

(* Nothing is under way before the first run.                               *)
LEMMA AloneInit == Init => AloneInv
BY DEF Init, AloneInv, Busy

(* Alone, every step keeps the account of the run and saves all or          *)
(* nothing.                                                                 *)
LEMMA AloneStep ==
  ASSUME Alone, RunInv, AloneInv, [Next]_vars
  PROVE  AloneInv' /\ [SavesWhole]_startup
<1>1. /\ edits = 0
      /\ pc # "idle" => exit = "none"
      /\ Busy => Traced
  BY DEF AloneInv
<1>2. TypeOK
  BY DEF RunInv
<1>3. CASE Command
  <2>1. PICK m \in BOOLEAN : Start(m) \/ PlanRefused(m)
    BY <1>3 DEF Command
  <2>2. CASE PlanRefused(m)
    BY <1>1, <2>2, AloneRests DEF PlanRefused, router
  <2>3. CASE Start(m)
    <3>1. pc' = "planned" /\ exit' = "none" /\ edits' = edits /\ startup' = startup
      BY <2>3 DEF Start, router
    <3>2. QED
      BY <1>1, <3>1 DEF AloneInv, Busy
  <2>4. QED
    BY <2>1, <2>2, <2>3 DEF PlanRefused, Start, router
<1>4. CASE Confirm
  <2>1. /\ pc = "planned" /\ pc' = "work" /\ before' = running /\ todo' = Work(plan)
        /\ UNCHANGED <<plan, exit, running, startup, edits>>
        /\ plan \in Plans(running, plan.assignment = "move")
    BY <1>4 DEF Confirm, PlanIsFresh, router
  <2>2. Traced'
    BY <2>1 DEF Traced
  <2>3. Opened'
    <3>1. ASSUME NEW t \in Work(plan)
          PROVE  First(t) \in Work(plan)
      BY StepShape DEF Work, First, Step, ProxyCommands, PolicyCommands
    <3>2. QED
      BY <2>1, <3>1 DEF Opened
  <2>4. QED
    BY <1>1, <2>1, <2>2, <2>3 DEF AloneInv, Busy
<1>5. CASE Noop \/ Stale \/ NotStarted
  <2>1. /\ pc' = "idle" /\ exit' \in {"noop", "refused"} /\ edits' = edits
        /\ startup' = startup
    BY <1>5 DEF Noop, Stale, NotStarted, End, router, WriteRequired
  <2>2. QED
    BY <1>1, <2>1, AloneRests
<1>6. CASE Send
  BY <1>6, AloneSends DEF Send
<1>7. CASE SendFails
  <2>1. /\ pc = "work" /\ GoTo("undo") /\ edits' = edits /\ startup' = startup
        /\ running' = running
    BY <1>7, FailsSplit DEF SendFails, Alone
  <2>2. QED
    BY <1>1, <2>1, AloneGoes DEF Busy
<1>8. CASE Verify
  <2>1. PICK label \in {"save", "undo"} :
          /\ GoTo(label) /\ (label = "save" => InForce)
    BY <1>8 DEF Verify
  <2>2. pc = "work" /\ UNCHANGED <<running, startup, edits>>
    BY <1>8 DEF Verify, router
  <2>3. QED
    BY <2>1, <2>2, AloneGoes DEF Busy
<1>9. CASE Save
  <2>1. /\ pc = "save" /\ startup' = running /\ GoTo("recheck")
        /\ UNCHANGED <<running, edits>>
    BY <1>9 DEF Save
  <2>2. InForce
    BY <2>1 DEF AloneInv
  <2>3. AloneInv'
    BY <2>1, <2>2, AloneGoes DEF Busy
  <2>4. SavesWhole
    BY <2>1, <2>2 DEF InForce, SavesWhole
  <2>5. QED
    BY <2>3, <2>4
<1>10. CASE SaveFails
  <2>1. /\ pc = "save" /\ startup' = startup /\ GoTo("undo") /\ UNCHANGED <<running, edits>>
    BY <1>10 DEF SaveFails, Alone
  <2>2. QED
    BY <2>1, AloneGoes DEF Busy
<1>11. CASE Recheck
  <2>1. pc = "recheck" /\ UNCHANGED <<running, startup, edits>>
    BY <1>11 DEF Recheck, router
  <2>2. InForce /\ startup = running
    BY <2>1 DEF AloneInv
  <2>3. pc' = "idle" /\ exit' = "ok"
    BY <1>11, <2>2 DEF Recheck, End
  <2>4. Repeatable
    BY <2>1, AloneSucceeds
  <2>5. Repeatable'
    BY <2>1, <2>4 DEF Repeatable
  <2>6. QED
    BY <1>1, <2>1, <2>2, <2>3, <2>5 DEF AloneInv, Busy
<1>12. CASE ReadFails
  <2>1. /\ pc \in {"recheck", "work"} /\ GoTo("undo")
        /\ UNCHANGED <<running, startup, edits>>
    BY <1>12 DEF ReadFails, router
  <2>2. QED
    BY <2>1, AloneGoes DEF Busy
<1>13. CASE Undo
  BY <1>13, AloneUndoes DEF Undo
<1>14. CASE UndoSave
  <2>1. /\ pc = "undo" /\ undo = {} /\ startup' = running /\ GoTo("undocheck")
        /\ UNCHANGED <<running, edits>>
    BY <1>14 DEF UndoSave
  <2>2. running = before
    BY <1>1, <1>2, <2>1, NothingToUndo DEF Busy
  <2>3. AloneInv'
    BY <2>1, <2>2, AloneGoes DEF Busy
  <2>4. QED
    BY <2>1, <2>2, <2>3 DEF SavesWhole
<1>15. CASE UndoCheck
  <2>1. /\ pc = "undocheck" /\ UNCHANGED <<running, startup, before, edits>>
        /\ pc' = "idle" /\ exit' \in {"rolled-back", "unproven"}
    BY <1>15 DEF UndoCheck, End, router
  <2>2. running = before /\ startup = running
    BY <2>1 DEF AloneInv
  <2>3. QED
    BY <1>1, <2>1, <2>2 DEF AloneInv, Busy
<1>16. CASE UndoFails \/ UndoSaveFails \/ UndoReadFails \/ Kill
  <2>1. /\ pc' = "idle" /\ exit' \in {"unproven", "killed"} /\ edits' = edits
        /\ startup' = startup
    BY <1>16 DEF UndoFails, UndoSaveFails, UndoReadFails, Kill, End, router, Alone
  <2>2. QED
    BY <1>1, <2>1, AloneRests
<1>17. CASE (Restart /\ pc = "idle") \/ RestoreStartup
  <2>1. /\ pc = "idle" /\ running' = startup
        /\ UNCHANGED <<startup, pc, plan, before, todo, undo, exit, edits>>
    BY <1>17 DEF Restart, RestoreStartup, adapter
  <2>2. exit \in {"ok", "rolled-back"} => running' = running
    BY <2>1 DEF AloneInv
  <2>3. exit = "ok" => Repeatable'
    BY <2>2 DEF AloneInv, Repeatable
  <2>4. QED
    BY <1>1, <2>1, <2>2, <2>3 DEF AloneInv, Busy
<1>18. CASE Restart /\ pc # "idle"
  <2>1. pc' = "idle" /\ exit' = "killed" /\ edits' = edits /\ startup' = startup
    BY <1>18 DEF Restart, End
  <2>2. QED
    BY <1>1, <2>1, AloneRests
<1>19. ~Administrator
  BY <1>1, <1>2, EditTyped DEF Alone
<1>20. CASE UNCHANGED vars
  <2>1. UNCHANGED <<running, startup, pc, plan, before, todo, undo, exit, edits>>
    BY <1>20 DEF vars
  <2>2. /\ Traced' = Traced /\ InForce' = InForce /\ Opened' = Opened
        /\ Repeatable' = Repeatable
    BY <2>1 DEF Traced, InForce, Opened, Repeatable
  <2>3. QED
    BY <2>1, <2>2 DEF AloneInv, Busy
<1>21. QED
  BY <1>3, <1>4, <1>5, <1>6, <1>7, <1>8, <1>9, <1>10, <1>11, <1>12, <1>13, <1>14, <1>15, <1>16,
     <1>17, <1>18, <1>19, <1>20
  DEF Next, Proceed, Failure

(* The invariant of a run that is the only writer.                         *)
THEOREM AloneInvariant ==
  ASSUME Alone
  PROVE  Spec => [](RunInv /\ AloneInv)
<1>1. Init => RunInv /\ AloneInv
  BY RunInit, AloneInit
<1>2. RunInv /\ AloneInv /\ [Next]_vars => (RunInv /\ AloneInv)'
  BY RunStep, AloneStep
<1>3. QED
  BY <1>1, <1>2, PTL DEF Spec

(* RollbackRestores: without another writer, a rollback of apply_live_plan *)
(* that is reported as verified has put everything back, although the      *)
(* check it makes looks at the default guard alone.                        *)
THEOREM RollbackIsWhole ==
  ASSUME Alone
  PROVE  Spec => []RollbackRestores
<1>1. AloneInv => RollbackRestores
  BY DEF AloneInv, RollbackRestores
<1>2. QED
  BY <1>1, AloneInvariant, PTL

(* SavedAllOrNothing: apply_live_plan saves the whole plan or nothing.     *)
THEOREM SavedIsWhole ==
  ASSUME Alone
  PROVE  Spec => SavedAllOrNothing
<1>1. RunInv /\ AloneInv /\ [Next]_vars => [startup' = before \/ Applied(startup', plan)]_startup
  BY AloneStep DEF SavesWhole
<1>2. QED
  BY <1>1, AloneInvariant, PTL DEF Spec, SavedAllOrNothing

(* RerunIsNoop: build_live_plan finds every object of a plan that is in    *)
(* force again, and nothing to create or to assign.                        *)
THEOREM RerunChangesNothing ==
  ASSUME Alone
  PROVE  Spec => []RerunIsNoop
<1>1. AloneInv => RerunIsNoop
  BY DEF AloneInv, RerunIsNoop, Repeatable
<1>2. QED
  BY <1>1, AloneInvariant, PTL
=============================================================================
