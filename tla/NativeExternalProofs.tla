------------------------- MODULE NativeExternalProofs -------------------------
(***************************************************************************)
(* Proofs about NativeExternal: where the configurations of the router are *)
(* while an operator carries the commands of a packet over, and back.      *)
(***************************************************************************)
EXTENDS NativeExternal, TLAPS

-----------------------------------------------------------------------------
(* Steps *)

(* A step has one of three parts; its slot and command number are in range *)
(* (the loops over plan.bindings in apply_live_plan).                      *)
LEMMA StepShape ==
  ASSUME NEW t \in Step
  PROVE  /\ t[2] \in Slot
         /\ t[3] \in 1..5
         /\ \/ t[1] = 1
            \/ t[1] = 2 /\ t[3] \in 1..2
            \/ t[1] = 3 /\ t[2] = SelectedSlot /\ t[3] = 1
         /\ t = <<t[1], t[2], t[3]>>
BY RouterAssumption DEF Step, ProxyCommands, PolicyCommands

-----------------------------------------------------------------------------
(* What a command changes *)

(* A command of a plan leaves a configuration of the right shape, and      *)
(* changes nothing but the object or the assignment it names.              *)
LEMMA EffectFrame ==
  ASSUME NEW cfg \in Config, NEW pl \in Plan, NEW t \in Step,
         t[1] = 3 => SelectedDevice \in Device
  PROVE  LET new == Effect(cfg, pl, t) IN
         /\ new \in Config
         /\ new.guard = cfg.guard
         /\ \A i \in ProxyIndex :
              new.proxies[i] # cfg.proxies[i] => t[1] = 1 /\ i = pl.proxy[t[2]]
         /\ \A j \in PolicyIndex :
              new.policies[j] # cfg.policies[j] => t[1] = 2 /\ j = pl.policy[t[2]]
         /\ \A d \in Device :
              new.assigned[d] # cfg.assigned[d] => t[1] = 3 /\ d = SelectedDevice
<1> DEFINE s == t[2]
           i == pl.proxy[s]
           j == pl.policy[s]
           x == OrBlank(cfg.proxies[i], BlankProxy)
           y == OrBlank(cfg.policies[j], BlankPolicy)
<1>1. s \in Slot /\ i \in ProxyIndex /\ j \in PolicyIndex
  BY StepShape DEF Plan
<1>2. x \in Proxy
  BY <1>1, RouterAssumption DEF OrBlank, BlankProxy, Proxy, Config, Slot
<1>3. y \in Policy
  BY <1>1, RouterAssumption DEF OrBlank, BlankPolicy, Policy, Config, Slot
<1>4. s \in 0..Profiles
  BY <1>1, RouterAssumption DEF Slot
<1>5. ASSUME NEW z \in Proxy
      PROVE  LET new == WithProxy(cfg, i, z) IN
             /\ new \in Config /\ new.guard = cfg.guard
             /\ \A k \in ProxyIndex : new.proxies[k] # cfg.proxies[k] => k = i
             /\ new.policies = cfg.policies /\ new.assigned = cfg.assigned
  BY <1>1 DEF WithProxy, Config
<1>6. ASSUME NEW z \in Policy
      PROVE  LET new == WithPolicy(cfg, j, z) IN
             /\ new \in Config /\ new.guard = cfg.guard
             /\ \A k \in PolicyIndex : new.policies[k] # cfg.policies[k] => k = j
             /\ new.proxies = cfg.proxies /\ new.assigned = cfg.assigned
  BY <1>1 DEF WithPolicy, Config
<1>7. CASE t[1] = 1
  <2> DEFINE z == ProxyAfter(x, s, t[3])
  <2>1. z \in Proxy
    BY ZenonT(100), <1>2, <1>4 DEF ProxyAfter, Proxy
  <2>2. Effect(cfg, pl, t) = WithProxy(cfg, i, z)
    BY <1>7 DEF Effect
  <2> QED BY <1>5, <1>7, <2>1, <2>2
<1>8. CASE t[1] = 2
  <2> DEFINE z == PolicyAfter(y, s, i, t[3])
  <2>1. z \in Policy
    BY <1>1, <1>3, <1>4 DEF PolicyAfter, Policy
  <2>2. Effect(cfg, pl, t) = WithPolicy(cfg, j, z)
    BY <1>8 DEF Effect
  <2> QED BY <1>6, <1>8, <2>1, <2>2
<1>9. CASE t[1] = 3
  <2>1. Effect(cfg, pl, t) = [cfg EXCEPT !.assigned[SelectedDevice] = pl.policy[SelectedSlot]]
    BY <1>9 DEF Effect
  <2>2. pl.policy[SelectedSlot] \in PolicyIndex
    BY RouterAssumption DEF Plan
  <2> DEFINE m == pl.policy[SelectedSlot]
             new == [cfg EXCEPT !.assigned[SelectedDevice] = m]
  <2>3. m \in PolicyIndex /\ SelectedDevice \in Device
    BY <1>9, <2>2
  <2> HIDE DEF m
  <2>4. /\ new.proxies = cfg.proxies /\ new.policies = cfg.policies /\ new.guard = cfg.guard
        /\ new.assigned = [cfg.assigned EXCEPT ![SelectedDevice] = m]
    BY DEF Config
  <2>5. new \in Config
    BY <2>3, <2>4 DEF Config
  <2>6. \A d \in Device : new.assigned[d] # cfg.assigned[d] => d = SelectedDevice
    BY <2>4 DEF Config
  <2> QED BY <1>9, <2>1, <2>4, <2>5, <2>6 DEF m
<1> QED BY <1>7, <1>8, <1>9, StepShape

(* A rollback command takes away the object its step created, or puts the  *)
(* assignment back, and changes nothing else.                              *)
LEMMA ReversalFrame ==
  ASSUME NEW cfg \in Config, NEW old \in Config, NEW pl \in Plan, NEW t \in Step,
         t[1] = 3 => SelectedDevice \in Device
  PROVE  LET new == Reversal(cfg, pl, old, t) IN
         /\ new \in Config
         /\ new.guard = cfg.guard
         /\ \A i \in ProxyIndex :
              new.proxies[i] # cfg.proxies[i] => t[1] = 1 /\ i = pl.proxy[t[2]]
         /\ \A j \in PolicyIndex :
              new.policies[j] # cfg.policies[j] => t[1] = 2 /\ j = pl.policy[t[2]]
         /\ \A d \in Device :
              new.assigned[d] # cfg.assigned[d] => t[1] = 3 /\ d = SelectedDevice
         /\ t[1] = 1 => new.proxies[pl.proxy[t[2]]] = Absent
         /\ t[1] = 2 => new.policies[pl.policy[t[2]]] = Absent
         /\ t[1] = 3 => new.assigned[SelectedDevice] = old.assigned[SelectedDevice]
<1>1. t[2] \in Slot /\ pl.proxy[t[2]] \in ProxyIndex /\ pl.policy[t[2]] \in PolicyIndex
  BY StepShape DEF Plan
<1>2. CASE t[1] = 1
  BY <1>1, <1>2 DEF Reversal, WithProxy, Config
<1>3. CASE t[1] = 2
  BY <1>1, <1>3 DEF Reversal, WithPolicy, Config
<1>4. CASE t[1] = 3
  BY <1>4 DEF Reversal, Config
<1> QED BY <1>2, <1>3, <1>4, StepShape

-----------------------------------------------------------------------------
(* Plans *)

(* What build_live_plan returns is a plan; what it wants to create is not  *)
(* there yet, and it assigns a device only if one was named.               *)
LEMMA PlansSound ==
  ASSUME NEW cfg \in Config, NEW m, NEW pl \in Plans(cfg, m)
  PROVE  /\ pl \in Plan
         /\ \A s \in pl.newproxy : cfg.proxies[pl.proxy[s]] = Absent
         /\ \A s \in pl.newpolicy : cfg.policies[pl.policy[s]] = Absent
         /\ pl.assignment \in {"assign", "move"} => SelectedDevice \in Device
<1> DEFINE newproxy == {s \in Slot : ServingProxies(cfg, s) = {}}
           newpolicy(f) == {s \in Slot : ServingPolicies(cfg, f[s]) = {}}
<1>1. PICK c \in [proxy : [Slot -> ProxyIndex], policy : [Slot -> PolicyIndex]] :
        /\ ProxyChoice(cfg, c.proxy, newproxy)
        /\ PolicyChoice(cfg, c.proxy, c.policy, newpolicy(c.proxy))
        /\ pl = [proxy |-> c.proxy, newproxy |-> newproxy,
                 policy |-> c.policy, newpolicy |-> newpolicy(c.proxy),
                 assignment |-> AssignmentAction(cfg, c.policy)]
  BY DEF Plans
<1>2. AssignmentAction(cfg, c.policy) \in {"none", "reuse", "assign", "move"}
  BY DEF AssignmentAction
<1>3. c.proxy \in [Slot -> ProxyIndex] /\ c.policy \in [Slot -> PolicyIndex]
  OBVIOUS
<1>4. newproxy \subseteq Slot /\ newpolicy(c.proxy) \subseteq Slot
  OBVIOUS
<1>5. \A s \in newproxy : c.proxy[s] \notin ProxiesOf(cfg)
  BY <1>1 DEF ProxyChoice, LowestFree
<1>6. \A s \in newpolicy(c.proxy) : c.policy[s] \notin PoliciesOf(cfg)
  BY <1>1 DEF PolicyChoice, LowestFree
<1>7. AssignmentAction(cfg, c.policy) \in {"assign", "move"} => SelectedDevice \in Device
  BY RouterAssumption DEF AssignmentAction
<1> HIDE DEF newproxy, newpolicy
<1>8. pl \in Plan
  BY <1>1, <1>2, <1>3, <1>4 DEF Plan
<1>9. /\ pl.newproxy = newproxy /\ pl.proxy = c.proxy
      /\ pl.newpolicy = newpolicy(c.proxy) /\ pl.policy = c.policy
      /\ pl.assignment = AssignmentAction(cfg, c.policy)
  BY <1>1
<1>10. \A s \in pl.newproxy : cfg.proxies[pl.proxy[s]] = Absent
  BY <1>3, <1>4, <1>5, <1>9 DEF ProxiesOf
<1>11. \A s \in pl.newpolicy : cfg.policies[pl.policy[s]] = Absent
  BY <1>3, <1>4, <1>6, <1>9 DEF PoliciesOf
<1> QED BY <1>7, <1>8, <1>9, <1>10, <1>11
-----------------------------------------------------------------------------
(* What the parser sees *)

(* state_fingerprint leaves out the security level of a proxy and nothing  *)
(* else.                                                                   *)
LEMMA ParsedFields ==
  ASSUME NEW cfg \in Config
  PROVE  /\ Parsed(cfg) \in Config
         /\ Parsed(cfg).policies = cfg.policies
         /\ Parsed(cfg).assigned = cfg.assigned
         /\ Parsed(cfg).guard = cfg.guard
         /\ \A i \in ProxyIndex :
              Parsed(cfg).proxies[i] = IF cfg.proxies[i] = Absent THEN Absent
                                       ELSE [cfg.proxies[i] EXCEPT !.public = FALSE]
<1> DEFINE f == [i \in ProxyIndex |-> IF cfg.proxies[i] = Absent THEN Absent
                                      ELSE [cfg.proxies[i] EXCEPT !.public = FALSE]]
<1>1. Parsed(cfg) = [cfg EXCEPT !.proxies = f]
  BY DEF Parsed
<1>2. f \in [ProxyIndex -> Proxy \cup {Absent}]
  <2>1. ASSUME NEW i \in ProxyIndex
        PROVE  (IF cfg.proxies[i] = Absent THEN Absent
                ELSE [cfg.proxies[i] EXCEPT !.public = FALSE]) \in Proxy \cup {Absent}
    BY DEF Config, Proxy
  <2> QED BY <2>1
<1>3. \A i \in ProxyIndex : f[i] = IF cfg.proxies[i] = Absent THEN Absent
                                   ELSE [cfg.proxies[i] EXCEPT !.public = FALSE]
  OBVIOUS
<1> HIDE DEF f
<1>4. /\ Parsed(cfg).proxies = f
      /\ Parsed(cfg).policies = cfg.policies
      /\ Parsed(cfg).assigned = cfg.assigned
      /\ Parsed(cfg).guard = cfg.guard
  BY <1>1 DEF Config
<1>5. Parsed(cfg) \in Config
  BY <1>1, <1>2 DEF Config
<1> QED BY <1>3, <1>4, <1>5

(* What decides about a proxy is seen.                                     *)
LEMMA ParsedProxy ==
  ASSUME NEW cfg \in Config, NEW i \in ProxyIndex
  PROVE  LET x == cfg.proxies[i]
             z == Parsed(cfg).proxies[i]
         IN  /\ z = Absent <=> x = Absent
             /\ x # Absent => /\ z.name = x.name /\ z.socks = x.socks /\ z.upstream = x.upstream
                              /\ z.up = x.up /\ z.auth = x.auth /\ z.public = FALSE
                              /\ x \in Proxy /\ z \in Proxy
<1> DEFINE x == cfg.proxies[i]
           z == Parsed(cfg).proxies[i]
<1>1. z = IF x = Absent THEN Absent ELSE [x EXCEPT !.public = FALSE]
  BY ParsedFields
<1>2. x \in Proxy \cup {Absent}
  BY DEF Config
<1> HIDE DEF x, z
<1>3. CASE x = Absent
  BY <1>1, <1>3 DEF x, z
<1>4. CASE x # Absent
  <2>1. x \in Proxy /\ z = [x EXCEPT !.public = FALSE]
    BY <1>1, <1>2, <1>4
  <2>2. /\ z.name = x.name /\ z.socks = x.socks /\ z.upstream = x.upstream
        /\ z.up = x.up /\ z.auth = x.auth /\ z.public = FALSE /\ z \in Proxy
    BY <2>1 DEF Proxy
  <2> QED BY <1>4, <2>1, <2>2, AbsentAssumption DEF x, z
<1> QED BY <1>3, <1>4

(* Two configurations that read the same.                                  *)
SameReading(a, b) ==
  /\ ProxiesOf(a) = ProxiesOf(b) /\ PoliciesOf(a) = PoliciesOf(b)
  /\ a.policies = b.policies /\ a.assigned = b.assigned
  /\ \A s \in Slot : /\ ServingProxies(a, s) = ServingProxies(b, s)
                     /\ NamedProxies(a, s) = NamedProxies(b, s)
                     /\ NamedPolicies(a, s) = NamedPolicies(b, s)
  /\ \A i : ServingPolicies(a, i) = ServingPolicies(b, i)
  /\ \A s \in Slot, i \in ProxiesOf(a) :
       ProxyServes(a.proxies[i], s) <=> ProxyServes(b.proxies[i], s)

(* Planning and verification read what the parser sees.                    *)
LEMMA ParsedReads ==
  ASSUME NEW cfg \in Config
  PROVE  SameReading(Parsed(cfg), cfg)
<1>1. ProxiesOf(Parsed(cfg)) = ProxiesOf(cfg)
  BY ParsedProxy DEF ProxiesOf
<1>2. /\ Parsed(cfg).policies = cfg.policies /\ Parsed(cfg).assigned = cfg.assigned
      /\ PoliciesOf(Parsed(cfg)) = PoliciesOf(cfg)
  BY ParsedFields DEF PoliciesOf
<1>3. \A s \in Slot, i \in ProxiesOf(cfg) :
        ProxyServes(Parsed(cfg).proxies[i], s) <=> ProxyServes(cfg.proxies[i], s)
  <2> SUFFICES ASSUME NEW s \in Slot, NEW i \in ProxiesOf(cfg)
               PROVE  ProxyServes(Parsed(cfg).proxies[i], s) <=> ProxyServes(cfg.proxies[i], s)
    OBVIOUS
  <2> DEFINE x == cfg.proxies[i]
             z == Parsed(cfg).proxies[i]
  <2>1. z.socks = x.socks /\ z.upstream = x.upstream /\ z.up = x.up /\ z.auth = x.auth
    BY ParsedProxy DEF ProxiesOf
  <2> HIDE DEF x, z
  <2>2. ProxyServes(z, s) <=> ProxyServes(x, s)
    BY <2>1, Zenon DEF ProxyServes
  <2> QED BY <2>2 DEF x, z
<1>4. \A s \in Slot : ServingProxies(Parsed(cfg), s) = ServingProxies(cfg, s)
  BY <1>1, <1>3 DEF ServingProxies
<1>5. \A s \in Slot : NamedProxies(Parsed(cfg), s) = NamedProxies(cfg, s)
  <2>1. \A i \in ProxiesOf(cfg) : Parsed(cfg).proxies[i].name = cfg.proxies[i].name
    BY ParsedProxy DEF ProxiesOf
  <2> QED BY <1>1, <2>1 DEF NamedProxies
<1>6. \A s \in Slot : NamedPolicies(Parsed(cfg), s) = NamedPolicies(cfg, s)
  BY <1>2 DEF NamedPolicies
<1>7. \A i : ServingPolicies(Parsed(cfg), i) = ServingPolicies(cfg, i)
  BY <1>2 DEF ServingPolicies
<1> QED BY <1>1, <1>2, <1>3, <1>4, <1>5, <1>6, <1>7 DEF SameReading

(* They have the same plans.                                               *)
LEMMA PlansRead ==
  ASSUME NEW a, NEW b, SameReading(a, b), NEW m, NEW pl \in Plans(a, m)
  PROVE  pl \in Plans(b, m)
<1> DEFINE newproxy == {s \in Slot : ServingProxies(a, s) = {}}
           newpolicy(f) == {s \in Slot : ServingPolicies(a, f[s]) = {}}
<1>1. PICK c \in [proxy : [Slot -> ProxyIndex], policy : [Slot -> PolicyIndex]] :
        /\ ProxyChoice(a, c.proxy, newproxy)
        /\ PolicyChoice(a, c.proxy, c.policy, newpolicy(c.proxy))
        /\ AssignmentAction(a, c.policy) = "move" => m
        /\ pl = [proxy |-> c.proxy, newproxy |-> newproxy,
                 policy |-> c.policy, newpolicy |-> newpolicy(c.proxy),
                 assignment |-> AssignmentAction(a, c.policy)]
  BY DEF Plans
<1>2. newproxy = {s \in Slot : ServingProxies(b, s) = {}}
  BY DEF SameReading
<1>3. newpolicy(c.proxy) = {s \in Slot : ServingPolicies(b, c.proxy[s]) = {}}
  BY DEF SameReading
<1>4. AssignmentAction(a, c.policy) = AssignmentAction(b, c.policy)
  BY DEF AssignmentAction, SameReading
<1> DEFINE N == newproxy
           M == newpolicy(c.proxy)
<1>5. /\ ProxyChoice(a, c.proxy, N) /\ PolicyChoice(a, c.proxy, c.policy, M)
  BY <1>1
<1>6. ProxyChoice(b, c.proxy, N)
  <2> HIDE DEF N, M
  <2>1. \A s \in Slot : NamedProxies(a, s) \subseteq ProxiesOf(a)
    BY DEF NamedProxies
  <2> QED BY <1>5, <2>1 DEF ProxyChoice, SameReading
<1>7. PolicyChoice(b, c.proxy, c.policy, M)
  <2> HIDE DEF N, M
  <2> QED BY <1>5 DEF PolicyChoice, SameReading
<1> QED BY <1>1, <1>2, <1>3, <1>4, <1>6, <1>7 DEF Plans

(* Planning reads nothing that the parser drops.                            *)
LEMMA ParsedPlans ==
  ASSUME NEW cfg \in Config, NEW m
  PROVE  Plans(Parsed(cfg), m) = Plans(cfg, m)
<1>1. SameReading(Parsed(cfg), cfg)
  BY ParsedReads
<1>2. SameReading(cfg, Parsed(cfg))
  BY <1>1 DEF SameReading
<1> QED BY <1>1, <1>2, PlansRead

(* Parsing what was parsed changes nothing.                                 *)
LEMMA ParsedTwice ==
  ASSUME NEW cfg \in Config
  PROVE  Parsed(Parsed(cfg)) = Parsed(cfg)
<1> DEFINE P == Parsed(cfg)
           Q == Parsed(P)
<1>1. P \in Config
  BY ParsedFields
<1>2. Q \in Config /\ Q.policies = P.policies /\ Q.assigned = P.assigned /\ Q.guard = P.guard
  BY <1>1, ParsedFields
<1>3. ASSUME NEW i \in ProxyIndex
      PROVE  Q.proxies[i] = P.proxies[i]
  <2>1. Q.proxies[i] = IF P.proxies[i] = Absent THEN Absent ELSE [P.proxies[i] EXCEPT !.public = FALSE]
    BY <1>1, ParsedFields
  <2>2. P.proxies[i] # Absent => P.proxies[i] \in Proxy /\ P.proxies[i].public = FALSE
    BY ParsedProxy
  <2> HIDE DEF P, Q
  <2> QED BY <2>1, <2>2 DEF Proxy
<1> HIDE DEF P, Q
<1>4. Q.proxies = P.proxies
  BY <1>1, <1>2, <1>3 DEF Config
<1>5. Q = P
  BY <1>1, <1>2, <1>4 DEF Config
<1> QED BY <1>5 DEF P, Q

(* Whether a plan is in force is read from what the parser keeps.           *)
LEMMA ParsedApplied ==
  ASSUME NEW cfg \in Config, NEW pl \in Plan
  PROVE  Applied(Parsed(cfg), pl) <=> Applied(cfg, pl)
<1>1. \A s \in Slot : pl.proxy[s] \in ProxyIndex /\ pl.policy[s] \in PolicyIndex
  BY DEF Plan
<1>2. ASSUME NEW s \in Slot
      PROVE  LET i == pl.proxy[s]
             IN  /\ Parsed(cfg).proxies[i] # Absent <=> cfg.proxies[i] # Absent
                 /\ cfg.proxies[i] # Absent =>
                      /\ ProxyServes(Parsed(cfg).proxies[i], s) <=> ProxyServes(cfg.proxies[i], s)
                      /\ Parsed(cfg).proxies[i].name = cfg.proxies[i].name
  BY <1>1, ParsedProxy DEF ProxyServes
<1>3. Parsed(cfg).policies = cfg.policies /\ Parsed(cfg).assigned = cfg.assigned
  BY ParsedFields
<1> QED BY <1>2, <1>3 DEF Applied

-----------------------------------------------------------------------------
-----------------------------------------------------------------------------
(* Planning again for the result of a plan *)

(* Nothing but the objects a plan creates differs from what it was made of.*)
Within(new, old, pl) ==
  /\ \A i \in ProxyIndex :
       new.proxies[i] # old.proxies[i] => \E s \in pl.newproxy : pl.proxy[s] = i
  /\ \A j \in PolicyIndex :
       new.policies[j] # old.policies[j] => \E s \in pl.newpolicy : pl.policy[s] = j

(* What a plan says of the configuration it was made of.                   *)
LEMMA PlanReads ==
  ASSUME NEW cfg \in Config, NEW m, NEW pl \in Plans(cfg, m)
  PROVE  /\ pl.newproxy = {s \in Slot : ServingProxies(cfg, s) = {}}
         /\ pl.newpolicy = {s \in Slot : ServingPolicies(cfg, pl.proxy[s]) = {}}
         /\ ProxyChoice(cfg, pl.proxy, pl.newproxy)
         /\ PolicyChoice(cfg, pl.proxy, pl.policy, pl.newpolicy)
<1> DEFINE newproxy == {s \in Slot : ServingProxies(cfg, s) = {}}
           newpolicy(f) == {s \in Slot : ServingPolicies(cfg, f[s]) = {}}
<1>1. PICK c \in [proxy : [Slot -> ProxyIndex], policy : [Slot -> PolicyIndex]] :
        /\ ProxyChoice(cfg, c.proxy, newproxy)
        /\ PolicyChoice(cfg, c.proxy, c.policy, newpolicy(c.proxy))
        /\ pl = [proxy |-> c.proxy, newproxy |-> newproxy,
                 policy |-> c.policy, newpolicy |-> newpolicy(c.proxy),
                 assignment |-> AssignmentAction(cfg, c.policy)]
  BY DEF Plans
<1> HIDE DEF newproxy, newpolicy
<1>2. /\ pl.newproxy = newproxy /\ pl.proxy = c.proxy
      /\ pl.newpolicy = newpolicy(c.proxy) /\ pl.policy = c.policy
  BY <1>1
<1>3. QED
  BY <1>1, <1>2 DEF newproxy, newpolicy

(* The proxies of a plan that is in force are chosen again, and none is    *)
(* created: every slot is served by its proxy and by no other.             *)
LEMMA ProxiesAgain ==
  ASSUME NEW old \in Config, NEW new \in Config, NEW m, NEW pl \in Plans(old, m),
         Applied(new, pl), Within(new, old, pl)
  PROVE  /\ \A s \in Slot : ServingProxies(new, s) = {pl.proxy[s]}
         /\ ProxyChoice(new, pl.proxy, {})
<1>1. /\ pl \in Plan /\ ProxyChoice(old, pl.proxy, pl.newproxy)
      /\ pl.newproxy = {s \in Slot : ServingProxies(old, s) = {}}
      /\ pl.newproxy \subseteq Slot
  BY PlansSound, PlanReads DEF Plan
<1>2. \A s \in Slot : /\ pl.proxy[s] \in ProxiesOf(new)
                      /\ ProxyServes(new.proxies[pl.proxy[s]], s)
                      /\ s \in pl.newproxy => new.proxies[pl.proxy[s]].name = s
  BY <1>1 DEF Applied, Plan, ProxiesOf
<1>3. \A s \in Slot, r \in Slot, i \in ProxyIndex :
        ProxyServes(new.proxies[i], s) /\ ProxyServes(new.proxies[i], r) => s = r
  BY DEF ProxyServes
<1>4. \A i \in ProxyIndex : \/ new.proxies[i] = old.proxies[i]
                            \/ \E r \in pl.newproxy : pl.proxy[r] = i
  BY DEF Within
<1>5. ASSUME NEW s \in Slot, NEW i \in ServingProxies(new, s)
      PROVE  i = pl.proxy[s]
  <2>1. i \in ProxyIndex /\ ProxyServes(new.proxies[i], s) /\ new.proxies[i] # Absent
    BY <1>5 DEF ServingProxies, ProxiesOf
  <2>2. CASE new.proxies[i] = old.proxies[i]
    <3>1. i \in ServingProxies(old, s)
      BY <2>1, <2>2 DEF ServingProxies, ProxiesOf
    <3>2. QED
      BY <1>1, <3>1 DEF ProxyChoice
  <2>3. CASE \E r \in pl.newproxy : pl.proxy[r] = i
    BY <1>1, <1>2, <1>3, <2>1, <2>3
  <2>4. QED
    BY <1>4, <2>1, <2>2, <2>3
<1>6. \A s \in Slot : ServingProxies(new, s) = {pl.proxy[s]}
  BY <1>2, <1>5 DEF ServingProxies
<1>7. ASSUME NEW s \in Slot, NEW i \in NamedProxies(new, s)
      PROVE  ProxyServes(new.proxies[i], s)
  <2>1. i \in ProxyIndex /\ new.proxies[i].name = s /\ new.proxies[i] # Absent
    BY <1>7 DEF NamedProxies, ProxiesOf
  <2>2. CASE new.proxies[i] = old.proxies[i]
    <3>1. i \in NamedProxies(old, s)
      BY <2>1, <2>2 DEF NamedProxies, ProxiesOf
    <3>2. QED
      BY <1>1, <2>2, <3>1 DEF ProxyChoice
  <2>3. CASE \E r \in pl.newproxy : pl.proxy[r] = i
    BY <1>1, <1>2, <2>1, <2>3
  <2>4. QED
    BY <1>4, <2>1, <2>2, <2>3
<1>8. ASSUME NEW s \in Slot
      PROVE  AtMostOne(NamedProxies(new, s))
  <2>1. \A i \in NamedProxies(new, s) : i \in ServingProxies(new, s)
    BY <1>7 DEF NamedProxies, ServingProxies
  <2>2. QED
    BY <1>6, <2>1 DEF AtMostOne
<1>9. LowestFree(pl.proxy, {}, ProxiesOf(new))
  BY DEF LowestFree
<1>10. QED
  BY <1>6, <1>7, <1>8, <1>9 DEF ProxyChoice

(* So are its policies: a proxy serves one slot, and the policy that       *)
(* permits it alone is the one of that slot.                               *)
LEMMA PoliciesAgain ==
  ASSUME NEW old \in Config, NEW new \in Config, NEW m, NEW pl \in Plans(old, m),
         Applied(new, pl), Within(new, old, pl)
  PROVE  /\ \A s \in Slot : ServingPolicies(new, pl.proxy[s]) = {pl.policy[s]}
         /\ PolicyChoice(new, pl.proxy, pl.policy, {})
<1>1. /\ pl \in Plan /\ PolicyChoice(old, pl.proxy, pl.policy, pl.newpolicy)
      /\ pl.newpolicy = {s \in Slot : ServingPolicies(old, pl.proxy[s]) = {}}
      /\ pl.newpolicy \subseteq Slot
  <2>1. pl \in Plan
    BY PlansSound
  <2>2. /\ PolicyChoice(old, pl.proxy, pl.policy, pl.newpolicy)
        /\ pl.newpolicy = {s \in Slot : ServingPolicies(old, pl.proxy[s]) = {}}
    BY PlanReads
  <2>3. QED
    BY <2>1, <2>2
<1>2. \A s \in Slot : /\ pl.policy[s] \in PoliciesOf(new)
                      /\ PolicyServes(new.policies[pl.policy[s]], pl.proxy[s])
                      /\ s \in pl.newpolicy => new.policies[pl.policy[s]].name = s
  BY <1>1 DEF Applied, Plan, PoliciesOf
<1>3. \A s \in Slot, r \in Slot : pl.proxy[s] = pl.proxy[r] => s = r
  <2>1. \A s \in Slot : ServingProxies(new, s) = {pl.proxy[s]}
    BY ProxiesAgain
  <2>2. \A s \in Slot : new.proxies[pl.proxy[s]].upstream = s
    BY <2>1 DEF ServingProxies, ProxyServes
  <2>3. QED
    BY <2>2
<1>4. \A j \in PolicyIndex : \/ new.policies[j] = old.policies[j]
                             \/ \E r \in pl.newpolicy : pl.policy[r] = j
  BY DEF Within
<1>5. ASSUME NEW s \in Slot, NEW j \in ServingPolicies(new, pl.proxy[s])
      PROVE  j = pl.policy[s]
  <2>1. /\ j \in PolicyIndex /\ PolicyServes(new.policies[j], pl.proxy[s])
        /\ new.policies[j] # Absent
    BY <1>5 DEF ServingPolicies, PoliciesOf
  <2>2. CASE new.policies[j] = old.policies[j]
    <3>1. j \in ServingPolicies(old, pl.proxy[s])
      BY <2>1, <2>2 DEF ServingPolicies, PoliciesOf
    <3>2. QED
      BY <1>1, <3>1 DEF PolicyChoice
  <2>3. ASSUME NEW r \in pl.newpolicy, pl.policy[r] = j
        PROVE  j = pl.policy[s]
    <3>1. {pl.proxy[r]} = {pl.proxy[s]}
      BY <1>1, <1>2, <2>1, <2>3 DEF PolicyServes
    <3>2. r = s
      BY <1>1, <1>3, <3>1
    <3>3. QED
      BY <2>3, <3>2
  <2>4. QED
    BY <1>4, <2>1, <2>2, <2>3
<1>6. \A s \in Slot : ServingPolicies(new, pl.proxy[s]) = {pl.policy[s]}
  BY <1>2, <1>5 DEF ServingPolicies
<1>7. ASSUME NEW s \in Slot, NEW j \in NamedPolicies(new, s)
      PROVE  PolicyServes(new.policies[j], pl.proxy[s])
  <2>1. j \in PolicyIndex /\ new.policies[j].name = s /\ new.policies[j] # Absent
    BY <1>7 DEF NamedPolicies, PoliciesOf
  <2>2. CASE new.policies[j] = old.policies[j]
    <3>1. j \in NamedPolicies(old, s)
      BY <2>1, <2>2 DEF NamedPolicies, PoliciesOf
    <3>2. QED
      BY <1>1, <2>2, <3>1 DEF PolicyChoice
  <2>3. CASE \E r \in pl.newpolicy : pl.policy[r] = j
    BY <1>1, <1>2, <2>1, <2>3
  <2>4. QED
    BY <1>4, <2>1, <2>2, <2>3
<1>8. ASSUME NEW s \in Slot
      PROVE  AtMostOne(NamedPolicies(new, s))
  <2>1. \A j \in NamedPolicies(new, s) : j \in ServingPolicies(new, pl.proxy[s])
    BY <1>7 DEF NamedPolicies, ServingPolicies
  <2>2. QED
    BY <1>6, <2>1 DEF AtMostOne
<1>9. LowestFree(pl.policy, {}, PoliciesOf(new))
  BY DEF LowestFree
<1>10. QED
  BY <1>6, <1>7, <1>8, <1>9 DEF PolicyChoice

(* With a plan in force the next plan chooses the same objects, creates    *)
(* nothing and assigns nothing.                                            *)
LEMMA ReusedAgain ==
  ASSUME NEW old \in Config, NEW new \in Config, NEW m, NEW pl \in Plans(old, m),
         Applied(new, pl), Within(new, old, pl)
  PROVE  AllReused(new, pl)
<1> DEFINE c == [proxy |-> pl.proxy, policy |-> pl.policy]
           newpolicy(f) == {s \in Slot : ServingPolicies(new, f[s]) = {}}
           again == [proxy |-> c.proxy, newproxy |-> {}, policy |-> c.policy, newpolicy |-> {},
                     assignment |-> AssignmentAction(new, c.policy)]
<1>1. c \in [proxy : [Slot -> ProxyIndex], policy : [Slot -> PolicyIndex]]
  BY PlansSound DEF Plan
<1>2. /\ {s \in Slot : ServingProxies(new, s) = {}} = {}
      /\ ProxyChoice(new, c.proxy, {})
  BY ProxiesAgain
<1>3. newpolicy(c.proxy) = {} /\ PolicyChoice(new, c.proxy, c.policy, {})
  BY PoliciesAgain
<1>4. AssignmentAction(new, c.policy) \in {"none", "reuse"}
  BY DEF AssignmentAction, Applied
<1>5. again \in Plans(new, FALSE)
  BY <1>1, <1>2, <1>3, <1>4 DEF Plans
<1> QED BY <1>4, <1>5 DEF AllReused

-----------------------------------------------------------------------------
(* The packet *)

(* Different slots get different new objects (lowest_free_id).             *)
LEMMA NewApart ==
  ASSUME NEW cfg \in Config, NEW m, NEW pl \in Plans(cfg, m)
  PROVE  /\ pl.newproxy \subseteq Slot /\ pl.newpolicy \subseteq Slot
         /\ \A s \in pl.newproxy, r \in pl.newproxy : pl.proxy[s] = pl.proxy[r] => s = r
         /\ \A s \in pl.newpolicy, r \in pl.newpolicy : pl.policy[s] = pl.policy[r] => s = r
<1>1. pl.newproxy \subseteq Slot /\ pl.newpolicy \subseteq Slot
  BY PlansSound DEF Plan
<1>2. LowestFree(pl.proxy, pl.newproxy, ProxiesOf(cfg))
  BY PlanReads DEF ProxyChoice
<1>3. LowestFree(pl.policy, pl.newpolicy, PoliciesOf(cfg))
  BY PlanReads DEF PolicyChoice
<1>4. \A s \in Slot, r \in Slot : s = r \/ s < r \/ r < s
  BY RouterAssumption DEF Slot
<1>5. \A s \in pl.newproxy, r \in pl.newproxy : pl.proxy[s] = pl.proxy[r] => s = r
  BY <1>1, <1>2, <1>4 DEF LowestFree
<1>6. \A s \in pl.newpolicy, r \in pl.newpolicy : pl.policy[s] = pl.policy[r] => s = r
  BY <1>1, <1>3, <1>4 DEF LowestFree
<1> QED BY <1>1, <1>5, <1>6

(* _expected_post_state, object by object.                                 *)
ProxyOf(s) == [name |-> s, public |-> FALSE, socks |-> TRUE, upstream |-> s,
               up |-> Enabled[s], auth |-> FALSE]

(* What _expected_post_state predicts, field by field.                      *)
LEMMA ExpectedFields ==
  ASSUME NEW cfg \in Config, NEW m, NEW pl \in Plans(cfg, m)
  PROVE  LET post == Expected(cfg, pl) IN
         /\ post \in Config
         /\ post.guard = cfg.guard
         /\ \A s \in pl.newproxy : post.proxies[pl.proxy[s]] = ProxyOf(s)
         /\ \A i \in ProxyIndex :
              (\A s \in pl.newproxy : pl.proxy[s] # i) => post.proxies[i] = Parsed(cfg).proxies[i]
         /\ \A s \in pl.newpolicy :
              post.policies[pl.policy[s]] = [name |-> s, permits |-> {pl.proxy[s]}]
         /\ \A j \in PolicyIndex :
              (\A s \in pl.newpolicy : pl.policy[s] # j) => post.policies[j] = cfg.policies[j]
         /\ \A d \in Device :
              post.assigned[d] = IF pl.assignment \in {"assign", "move"} /\ d = SelectedDevice
                                 THEN pl.policy[SelectedSlot] ELSE cfg.assigned[d]
<1> DEFINE P == Parsed(cfg)
           f == [i \in ProxyIndex |->
                  IF \E s \in pl.newproxy : pl.proxy[s] = i
                  THEN ProxyOf(NewProxyAt(pl, i)) ELSE P.proxies[i]]
           g == [j \in PolicyIndex |->
                  IF \E s \in pl.newpolicy : pl.policy[s] = j
                  THEN [name |-> NewPolicyAt(pl, j), permits |-> {pl.proxy[NewPolicyAt(pl, j)]}]
                  ELSE P.policies[j]]
           objects == ExpectedObjects(cfg, pl)
           post == Expected(cfg, pl)
<1>1. P \in Config /\ P.policies = cfg.policies /\ P.assigned = cfg.assigned /\ P.guard = cfg.guard
  BY ParsedFields
<1>2. pl \in Plan /\ pl.newproxy \subseteq Slot /\ pl.newpolicy \subseteq Slot
  BY PlansSound, NewApart
<1>3. objects = [P EXCEPT !.proxies = f, !.policies = g]
  BY DEF ExpectedObjects, ProxyOf
<1>4. ASSUME NEW s \in pl.newproxy
      PROVE  NewProxyAt(pl, pl.proxy[s]) = s
  <2>1. /\ NewProxyAt(pl, pl.proxy[s]) \in pl.newproxy
        /\ pl.proxy[NewProxyAt(pl, pl.proxy[s])] = pl.proxy[s]
    BY DEF NewProxyAt
  <2> QED BY <2>1, NewApart
<1>5. ASSUME NEW s \in pl.newpolicy
      PROVE  NewPolicyAt(pl, pl.policy[s]) = s
  <2>1. /\ NewPolicyAt(pl, pl.policy[s]) \in pl.newpolicy
        /\ pl.policy[NewPolicyAt(pl, pl.policy[s])] = pl.policy[s]
    BY DEF NewPolicyAt
  <2> QED BY <2>1, NewApart
<1>6. /\ \A s \in pl.newproxy : pl.proxy[s] \in ProxyIndex /\ f[pl.proxy[s]] = ProxyOf(s)
      /\ \A i \in ProxyIndex :
           (\A s \in pl.newproxy : pl.proxy[s] # i) => f[i] = P.proxies[i]
  <2>1. \A s \in pl.newproxy : pl.proxy[s] \in ProxyIndex
    BY <1>2 DEF Plan
  <2> QED BY <1>4, <2>1
<1>7. /\ \A s \in pl.newpolicy : /\ pl.policy[s] \in PolicyIndex
                                 /\ g[pl.policy[s]] = [name |-> s, permits |-> {pl.proxy[s]}]
      /\ \A j \in PolicyIndex :
           (\A s \in pl.newpolicy : pl.policy[s] # j) => g[j] = P.policies[j]
  <2>1. \A s \in pl.newpolicy : pl.policy[s] \in PolicyIndex
    BY <1>2 DEF Plan
  <2> QED BY <1>5, <2>1
<1>8. \A s \in Slot : /\ ProxyOf(s) \in Proxy
                      /\ [name |-> s, permits |-> {pl.proxy[s]}] \in Policy
  <2> SUFFICES ASSUME NEW s \in Slot
               PROVE  /\ ProxyOf(s) \in Proxy
                      /\ [name |-> s, permits |-> {pl.proxy[s]}] \in Policy
    OBVIOUS
  <2>1. s \in 0..Profiles /\ Enabled[s] \in BOOLEAN
    BY RouterAssumption DEF Slot
  <2>2. pl.proxy[s] \in ProxyIndex
    BY <1>2 DEF Plan
  <2> QED BY <2>1, <2>2 DEF ProxyOf, Proxy, Policy
<1>9. f \in [ProxyIndex -> Proxy \cup {Absent}]
  <2>1. ASSUME NEW i \in ProxyIndex
        PROVE  f[i] \in Proxy \cup {Absent}
    <3>1. CASE \E s \in pl.newproxy : pl.proxy[s] = i
      BY <1>2, <1>6, <1>8, <3>1
    <3>2. CASE \A s \in pl.newproxy : pl.proxy[s] # i
      BY <1>1, <1>6, <3>2 DEF Config
    <3> QED BY <3>1, <3>2
  <2> QED BY <2>1
<1>10. g \in [PolicyIndex -> Policy \cup {Absent}]
  <2>1. ASSUME NEW j \in PolicyIndex
        PROVE  g[j] \in Policy \cup {Absent}
    <3>1. CASE \E s \in pl.newpolicy : pl.policy[s] = j
      <4>1. PICK s \in pl.newpolicy : pl.policy[s] = j
        BY <3>1
      <4>2. g[pl.policy[s]] = [name |-> s, permits |-> {pl.proxy[s]}]
        BY <1>7
      <4>3. [name |-> s, permits |-> {pl.proxy[s]}] \in Policy
        BY <1>2, <1>8
      <4> QED BY <4>1, <4>2, <4>3
    <3>2. CASE \A s \in pl.newpolicy : pl.policy[s] # j
      BY <1>1, <1>7, <3>2 DEF Config
    <3> QED BY <3>1, <3>2
  <2> QED BY <2>1
<1> HIDE DEF f, g, P
<1>11. /\ objects \in Config /\ objects.proxies = f /\ objects.policies = g
       /\ objects.assigned = cfg.assigned /\ objects.guard = cfg.guard
  BY <1>1, <1>3, <1>9, <1>10 DEF Config
<1> HIDE DEF objects
<1>12. /\ post \in Config /\ post.proxies = f /\ post.policies = g /\ post.guard = cfg.guard
       /\ \A d \in Device :
            post.assigned[d] = IF pl.assignment \in {"assign", "move"} /\ d = SelectedDevice
                               THEN pl.policy[SelectedSlot] ELSE cfg.assigned[d]
  <2>1. CASE pl.assignment \in {"assign", "move"}
    <3> DEFINE target == pl.policy[SelectedSlot]
    <3>1. SelectedDevice \in Device /\ target \in PolicyIndex
      BY <1>2, <2>1, PlansSound, RouterAssumption DEF Plan
    <3>2. post = [objects EXCEPT !.assigned[SelectedDevice] = target]
      BY <2>1 DEF Expected, objects
    <3> HIDE DEF target, post
    <3>3. /\ post.proxies = f /\ post.policies = g /\ post.guard = cfg.guard
          /\ post.assigned = [cfg.assigned EXCEPT ![SelectedDevice] = target]
      BY <1>11, <3>2 DEF Config
    <3>4. post \in Config
      BY <1>11, <3>1, <3>2, <3>3 DEF Config
    <3>5. \A d \in Device : post.assigned[d] = IF d = SelectedDevice THEN target ELSE cfg.assigned[d]
      BY <3>1, <3>3 DEF Config
    <3> QED BY <2>1, <3>3, <3>4, <3>5 DEF target
  <2>2. CASE pl.assignment \notin {"assign", "move"}
    BY <1>11, <2>2 DEF Expected, objects
  <2> QED BY <2>1, <2>2
<1> HIDE DEF post
<1>13. /\ \A s \in pl.newproxy : post.proxies[pl.proxy[s]] = ProxyOf(s)
       /\ \A i \in ProxyIndex :
            (\A s \in pl.newproxy : pl.proxy[s] # i) => post.proxies[i] = Parsed(cfg).proxies[i]
  BY <1>6, <1>12 DEF P
<1>14. /\ \A s \in pl.newpolicy :
            post.policies[pl.policy[s]] = [name |-> s, permits |-> {pl.proxy[s]}]
       /\ \A j \in PolicyIndex :
            (\A s \in pl.newpolicy : pl.policy[s] # j) => post.policies[j] = cfg.policies[j]
  BY <1>1, <1>7, <1>12
<1> QED BY <1>12, <1>13, <1>14 DEF post

-----------------------------------------------------------------------------
(* Where the configurations are *)

(* What the parser sees of a configuration differs from old in nothing but *)
(* what the commands T of a plan are about.                                *)
Apart(new, old, pl, T) ==
  /\ \A i \in ProxyIndex :
       new.proxies[i] # old.proxies[i] => \E t \in T : t[1] = 1 /\ pl.proxy[t[2]] = i
  /\ \A j \in PolicyIndex :
       new.policies[j] # old.policies[j] => \E t \in T : t[1] = 2 /\ pl.policy[t[2]] = j
  /\ \A d \in Device :
       new.assigned[d] # old.assigned[d] => d = SelectedDevice /\ \E t \in T : t[1] = 3
  /\ new.guard = old.guard

(* The commands that may have been carried over and are not undone yet.    *)
Touched ==
  IF pc \in {"planned", "pre", "undone", "undo-pre", "restored"} THEN {}
  ELSE IF pc = "undo" THEN todo ELSE Work(packet.plan)

(* A packet was made of a plan for the configuration it starts from.       *)
Made ==
  /\ packet.plan \in Plans(packet.pre, TRUE)
  /\ packet.pre = Parsed(packet.pre)
  /\ packet.post = Expected(packet.pre, packet.plan)
  /\ packet.guard = packet.pre.guard

Held ==
  /\ TypeOK
  /\ packet = NoPacket <=> pc = "idle"
  /\ pc # "idle" => Made
  /\ pc \notin {"send", "undo"} => todo = {}
  /\ pc = "send" => todo \subseteq Work(packet.plan)
  /\ pc = "undo" => todo \subseteq Reversals(packet.plan)

(* Nobody but the operator at the router: where the configurations are.    *)
Followed ==
  calm /\ pc # "idle" =>
    /\ Apart(Parsed(running), packet.pre, packet.plan, Touched)
    /\ pc = "running" => snapshot = running
    /\ pc \in {"save", "saved", "startup", "accepted"} => Parsed(running) = packet.post
    /\ pc = "startup" => snapshot = startup
    /\ pc = "accepted" => /\ Parsed(startup) = packet.post
                          /\ Applied(startup, packet.plan)
                          /\ AllReused(startup, packet.plan)

(* The objects a plan creates, with the commands T still to come.          *)
ProxyBuilt(x, s, T) ==
  IF <<1, s, 1>> \in T THEN x = Absent
  ELSE /\ x # Absent /\ x.name = s /\ ~x.auth
       /\ x.socks <=> <<1, s, 3>> \notin T
       /\ x.upstream = IF <<1, s, 4>> \in T THEN 0 ELSE s
       /\ x.up <=> <<1, s, 5>> \notin T

PolicyBuilt(y, s, i, T) ==
  IF <<2, s, 1>> \in T THEN y = Absent
  ELSE /\ y # Absent /\ y.name = s
       /\ y.permits = IF <<2, s, 2>> \in T THEN {} ELSE {i}

(* An object is opened by its first command.                               *)
Opening(T) ==
  \A s \in Slot :
    /\ <<1, s, 1>> \in T => <<1, s, 3>> \in T /\ <<1, s, 4>> \in T /\ <<1, s, 5>> \in T
    /\ <<2, s, 1>> \in T => <<2, s, 2>> \in T

Built(cfg, pl, T) ==
  /\ \A s \in pl.newproxy : ProxyBuilt(cfg.proxies[pl.proxy[s]], s, T)
  /\ \A s \in pl.newpolicy : PolicyBuilt(cfg.policies[pl.policy[s]], s, pl.proxy[s], T)
  /\ pl.assignment \in {"assign", "move"} /\ <<3, SelectedSlot, 1>> \notin T =>
       cfg.assigned[SelectedDevice] = pl.policy[SelectedSlot]
  /\ Opening(T)

(* Nothing lost, damaged or edited so far.                                 *)
Exact ==
  faults = 0 /\ pc # "idle" =>
    /\ packet.intact /\ calm
    /\ pc \in {"send", "sent"} => Built(running, packet.plan, todo)

ExtInv == Held /\ Followed /\ Exact

(* Apart from nothing: the same.                                           *)
LEMMA NothingApart ==
  ASSUME NEW new \in Config, NEW old \in Config, NEW pl, Apart(new, old, pl, {})
  PROVE  new = old
<1>1. \A i \in ProxyIndex : new.proxies[i] = old.proxies[i]
  BY DEF Apart
<1>2. \A j \in PolicyIndex : new.policies[j] = old.policies[j]
  BY DEF Apart
<1>3. \A d \in Device : new.assigned[d] = old.assigned[d]
  BY DEF Apart
<1>4. /\ new.proxies = old.proxies /\ new.policies = old.policies
      /\ new.assigned = old.assigned /\ new.guard = old.guard
  BY <1>1, <1>2, <1>3 DEF Config, Apart
<1> QED BY <1>4 DEF Config

(* What the parser sees changes with what it sees only.                    *)
LEMMA ParsedFrame ==
  ASSUME NEW new \in Config, NEW old \in Config
  PROVE  /\ \A i \in ProxyIndex :
              Parsed(new).proxies[i] # Parsed(old).proxies[i] => new.proxies[i] # old.proxies[i]
         /\ Parsed(new).policies = new.policies /\ Parsed(old).policies = old.policies
         /\ Parsed(new).assigned = new.assigned /\ Parsed(old).assigned = old.assigned
         /\ Parsed(new).guard = new.guard /\ Parsed(old).guard = old.guard
<1>1. /\ \A i \in ProxyIndex :
           Parsed(new).proxies[i] = IF new.proxies[i] = Absent THEN Absent
                                    ELSE [new.proxies[i] EXCEPT !.public = FALSE]
      /\ Parsed(new).policies = new.policies /\ Parsed(new).assigned = new.assigned
      /\ Parsed(new).guard = new.guard
  BY ParsedFields
<1>2. /\ \A i \in ProxyIndex :
           Parsed(old).proxies[i] = IF old.proxies[i] = Absent THEN Absent
                                    ELSE [old.proxies[i] EXCEPT !.public = FALSE]
      /\ Parsed(old).policies = old.policies /\ Parsed(old).assigned = old.assigned
      /\ Parsed(old).guard = old.guard
  BY ParsedFields
<1>3. ASSUME NEW i \in ProxyIndex, new.proxies[i] = old.proxies[i]
      PROVE  Parsed(new).proxies[i] = Parsed(old).proxies[i]
  <2>1. Parsed(new).proxies[i] = IF new.proxies[i] = Absent THEN Absent
                                 ELSE [new.proxies[i] EXCEPT !.public = FALSE]
    BY <1>1
  <2>2. Parsed(old).proxies[i] = IF old.proxies[i] = Absent THEN Absent
                                 ELSE [old.proxies[i] EXCEPT !.public = FALSE]
    BY <1>2
  <2> QED BY <1>3, <2>1, <2>2
<1>4. \A i \in ProxyIndex :
        Parsed(new).proxies[i] # Parsed(old).proxies[i] => new.proxies[i] # old.proxies[i]
  BY <1>3
<1> QED BY <1>1, <1>2, <1>4

(* A command carried over stays within what the plan is about.             *)
LEMMA SendApart ==
  ASSUME NEW cfg \in Config, NEW old \in Config, NEW pl \in Plan, NEW t \in Work(pl),
         t[1] = 3 => SelectedDevice \in Device,
         Apart(Parsed(cfg), old, pl, Work(pl))
  PROVE  /\ Effect(cfg, pl, t) \in Config
         /\ Apart(Parsed(Effect(cfg, pl, t)), old, pl, Work(pl))
<1> DEFINE new == Effect(cfg, pl, t)
<1>1. t \in Step
  BY DEF Work
<1>2. /\ new \in Config
      /\ new.guard = cfg.guard
      /\ \A i \in ProxyIndex :
           new.proxies[i] # cfg.proxies[i] => t[1] = 1 /\ i = pl.proxy[t[2]]
      /\ \A j \in PolicyIndex :
           new.policies[j] # cfg.policies[j] => t[1] = 2 /\ j = pl.policy[t[2]]
      /\ \A d \in Device :
           new.assigned[d] # cfg.assigned[d] => t[1] = 3 /\ d = SelectedDevice
  BY <1>1, EffectFrame
<1> HIDE DEF new
<1>3. /\ \A i \in ProxyIndex :
           Parsed(new).proxies[i] # Parsed(cfg).proxies[i] => new.proxies[i] # cfg.proxies[i]
      /\ Parsed(new).policies = new.policies /\ Parsed(cfg).policies = cfg.policies
      /\ Parsed(new).assigned = new.assigned /\ Parsed(cfg).assigned = cfg.assigned
      /\ Parsed(new).guard = new.guard /\ Parsed(cfg).guard = cfg.guard
  BY <1>2, ParsedFrame
<1>4. ASSUME NEW i \in ProxyIndex, Parsed(new).proxies[i] # old.proxies[i]
      PROVE  \E u \in Work(pl) : u[1] = 1 /\ pl.proxy[u[2]] = i
  BY <1>2, <1>3, <1>4 DEF Apart
<1>5. ASSUME NEW j \in PolicyIndex, Parsed(new).policies[j] # old.policies[j]
      PROVE  \E u \in Work(pl) : u[1] = 2 /\ pl.policy[u[2]] = j
  BY <1>2, <1>3, <1>5 DEF Apart
<1>6. ASSUME NEW d \in Device, Parsed(new).assigned[d] # old.assigned[d]
      PROVE  d = SelectedDevice /\ \E u \in Work(pl) : u[1] = 3
  BY <1>2, <1>3, <1>6 DEF Apart
<1>7. Parsed(new).guard = old.guard
  BY <1>2, <1>3 DEF Apart
<1>8. Apart(Parsed(new), old, pl, Work(pl))
  BY <1>4, <1>5, <1>6, <1>7 DEF Apart
<1> QED BY <1>2, <1>8 DEF new

(* A reversal puts back what its command was about.                        *)
LEMMA UndoApart ==
  ASSUME NEW cfg \in Config, NEW old \in Config, NEW m, NEW pl \in Plans(old, m),
         NEW T \in SUBSET Reversals(pl), NEW t \in T,
         Apart(Parsed(cfg), old, pl, T)
  PROVE  /\ Reversal(cfg, pl, old, t) \in Config
         /\ Apart(Parsed(Reversal(cfg, pl, old, t)), old, pl, T \ {t})
<1> DEFINE new == Reversal(cfg, pl, old, t)
<1>1. /\ pl \in Plan /\ t \in Step /\ t \in Work(pl)
      /\ t[1] = 3 => SelectedDevice \in Device
      /\ t[1] = 1 => old.proxies[pl.proxy[t[2]]] = Absent
      /\ t[1] = 2 => old.policies[pl.policy[t[2]]] = Absent
  BY PlansSound DEF Work, Reversals
<1>2. /\ new \in Config
      /\ new.guard = cfg.guard
      /\ \A i \in ProxyIndex :
           new.proxies[i] # cfg.proxies[i] => t[1] = 1 /\ i = pl.proxy[t[2]]
      /\ \A j \in PolicyIndex :
           new.policies[j] # cfg.policies[j] => t[1] = 2 /\ j = pl.policy[t[2]]
      /\ \A d \in Device :
           new.assigned[d] # cfg.assigned[d] => t[1] = 3 /\ d = SelectedDevice
      /\ t[1] = 1 => new.proxies[pl.proxy[t[2]]] = Absent
      /\ t[1] = 2 => new.policies[pl.policy[t[2]]] = Absent
      /\ t[1] = 3 => new.assigned[SelectedDevice] = old.assigned[SelectedDevice]
  BY <1>1, ReversalFrame, ZenonT(60)
<1> HIDE DEF new
<1>3. /\ \A i \in ProxyIndex :
           Parsed(new).proxies[i] # Parsed(cfg).proxies[i] => new.proxies[i] # cfg.proxies[i]
      /\ Parsed(new).policies = new.policies /\ Parsed(cfg).policies = cfg.policies
      /\ Parsed(new).assigned = new.assigned /\ Parsed(cfg).assigned = cfg.assigned
      /\ Parsed(new).guard = new.guard /\ Parsed(cfg).guard = cfg.guard
  BY <1>2, ParsedFrame
<1>4. \A i \in ProxyIndex : new.proxies[i] = Absent => Parsed(new).proxies[i] = Absent
  BY <1>2, ParsedFields
<1>5. ASSUME NEW i \in ProxyIndex, Parsed(new).proxies[i] # old.proxies[i]
      PROVE  \E u \in T \ {t} : u[1] = 1 /\ pl.proxy[u[2]] = i
  <2>1. ~(t[1] = 1 /\ pl.proxy[t[2]] = i)
    BY <1>1, <1>2, <1>4, <1>5
  <2>2. PICK u \in T : u[1] = 1 /\ pl.proxy[u[2]] = i
    BY <1>2, <1>3, <1>5, <2>1 DEF Apart
  <2> QED BY <2>1, <2>2
<1>6. ASSUME NEW j \in PolicyIndex, Parsed(new).policies[j] # old.policies[j]
      PROVE  \E u \in T \ {t} : u[1] = 2 /\ pl.policy[u[2]] = j
  <2>1. ~(t[1] = 2 /\ pl.policy[t[2]] = j)
    BY <1>1, <1>2, <1>3, <1>6
  <2>2. PICK u \in T : u[1] = 2 /\ pl.policy[u[2]] = j
    BY <1>2, <1>3, <1>6, <2>1 DEF Apart
  <2> QED BY <2>1, <2>2
<1>7. ASSUME NEW d \in Device, Parsed(new).assigned[d] # old.assigned[d]
      PROVE  d = SelectedDevice /\ \E u \in T \ {t} : u[1] = 3
  <2>1. Parsed(cfg).assigned[d] # old.assigned[d] /\ d = SelectedDevice
    BY <1>2, <1>3, <1>7 DEF Apart
  <2>2. t[1] # 3
    BY <1>2, <1>3, <1>7, <2>1
  <2> QED BY <2>1, <2>2 DEF Apart
<1>8. Parsed(new).guard = old.guard
  BY <1>2, <1>3 DEF Apart
<1>9. Apart(Parsed(new), old, pl, T \ {t})
  BY <1>5, <1>6, <1>7, <1>8 DEF Apart
<1> QED BY <1>2, <1>9 DEF new

(* The reversals cover all the commands.                                   *)
LEMMA TurnApart ==
  ASSUME NEW new, NEW old, NEW pl, Apart(new, old, pl, Work(pl))
  PROVE  Apart(new, old, pl, Reversals(pl))
<1>1. ASSUME NEW t \in Work(pl)
      PROVE  \E u \in Reversals(pl) : u[1] = t[1] /\ u[2] = t[2]
  <2>1. <<t[1], t[2], 1>> \in Reversals(pl)
    BY StepShape DEF Work, Reversals, Undoable, Step, ProxyCommands, PolicyCommands
  <2> QED BY <2>1
<1>2. ASSUME NEW i \in ProxyIndex, new.proxies[i] # old.proxies[i]
      PROVE  \E t \in Reversals(pl) : t[1] = 1 /\ pl.proxy[t[2]] = i
  <2>1. PICK t \in Work(pl) : t[1] = 1 /\ pl.proxy[t[2]] = i
    BY <1>2 DEF Apart
  <2> QED BY <1>1, <2>1
<1>3. ASSUME NEW j \in PolicyIndex, new.policies[j] # old.policies[j]
      PROVE  \E t \in Reversals(pl) : t[1] = 2 /\ pl.policy[t[2]] = j
  <2>1. PICK t \in Work(pl) : t[1] = 2 /\ pl.policy[t[2]] = j
    BY <1>3 DEF Apart
  <2> QED BY <1>1, <2>1
<1>4. ASSUME NEW d \in Device, new.assigned[d] # old.assigned[d]
      PROVE  d = SelectedDevice /\ \E t \in Reversals(pl) : t[1] = 3
  <2>1. d = SelectedDevice /\ \E t \in Work(pl) : t[1] = 3
    BY <1>4 DEF Apart
  <2> QED BY <1>1, <2>1
<1> QED BY <1>2, <1>3, <1>4 DEF Apart

-----------------------------------------------------------------------------
(* The steps *)

(* What the Web UI may make of a configuration.                            *)
LEMMA EditTyped ==
  ASSUME NEW cfg \in Config
  PROVE  Edited(cfg) \subseteq Config
<1>1. ForeignProxy \in Proxy
  <2>1. 0 \in 0..Profiles
    BY RouterAssumption
  <2> QED BY <2>1 DEF BlankProxy, ForeignProxy, Proxy
<1>2. ASSUME NEW i \in ProxyIndex, NEW x \in Proxy \cup {Absent}
      PROVE  WithProxy(cfg, i, x) \in Config
  BY DEF WithProxy, Config
<1>3. ASSUME NEW d \in Device, NEW j \in PoliciesOf(cfg) \cup {Absent}
      PROVE  [cfg EXCEPT !.assigned[d] = j] \in Config
  <2> DEFINE new == [cfg EXCEPT !.assigned[d] = j]
  <2>1. j \in PolicyIndex \cup {Absent}
    BY DEF PoliciesOf
  <2>2. /\ new.proxies = cfg.proxies /\ new.policies = cfg.policies /\ new.guard = cfg.guard
        /\ new.assigned = [cfg.assigned EXCEPT ![d] = j]
    BY DEF Config
  <2>3. new.assigned \in [Device -> PolicyIndex \cup {Absent}]
    BY <2>1, <2>2 DEF Config
  <2>4. new = [proxies |-> new.proxies, policies |-> new.policies,
               assigned |-> new.assigned, guard |-> new.guard]
    BY DEF Config
  <2> HIDE DEF new
  <2>5. new \in Config
    BY <2>2, <2>3, <2>4 DEF Config
  <2> QED BY <2>5 DEF new
<1>4. ASSUME NEW g \in Guard
      PROVE  [cfg EXCEPT !.guard = g] \in Config
  BY DEF Config
<1>5. ASSUME NEW i \in ProxyIndex
      PROVE  WithProxy(cfg, i, IF cfg.proxies[i] = Absent THEN ForeignProxy ELSE Absent) \in Config
  BY <1>1, <1>2
<1> QED BY <1>3, <1>4, <1>5 DEF Edited

(* build_external_transaction.                                             *)
LEMMA PacketMade ==
  ASSUME NEW cfg \in Config, NEW pl \in Plans(cfg, TRUE)
  PROVE  LET p == PacketFor(cfg, pl) IN
         /\ p \in Packet /\ p.plan = pl /\ p.pre = Parsed(cfg) /\ p.intact = TRUE
         /\ p.plan \in Plans(p.pre, TRUE) /\ p.pre = Parsed(p.pre)
         /\ p.post = Expected(p.pre, p.plan) /\ p.guard = p.pre.guard
<1> DEFINE p == PacketFor(cfg, pl)
           P == Parsed(cfg)
           post == Expected(cfg, pl)
<1>1. /\ p = [plan |-> pl, pre |-> P, post |-> post, guard |-> cfg.guard, intact |-> TRUE]
  BY DEF PacketFor
<1>2. P \in Config /\ P.guard = cfg.guard /\ cfg.guard \in Guard /\ Parsed(P) = P
  BY ParsedFields, ParsedTwice DEF Config
<1>3. post \in Config
  BY ExpectedFields
<1>4. Expected(P, pl) = post
  BY <1>2 DEF Expected, ExpectedObjects
<1>5. pl \in Plan /\ pl \in Plans(P, TRUE)
  BY PlansSound, ParsedPlans
<1> HIDE DEF P, post, p
<1>6. /\ p.plan = pl /\ p.pre = P /\ p.post = post /\ p.guard = cfg.guard /\ p.intact = TRUE
  BY <1>1
<1>7. p \in Packet
  BY <1>1, <1>2, <1>3, <1>5 DEF Packet
<1> QED BY <1>2, <1>4, <1>5, <1>6, <1>7 DEF p, P, post

(* What a held packet says.                                                *)
LEMMA MadeFacts ==
  ASSUME TypeOK, packet # NoPacket, Made
  PROVE  /\ packet \in Packet /\ packet.plan \in Plan /\ packet.pre \in Config
         /\ packet.post \in Config
         /\ packet.plan.assignment \in {"assign", "move"} => SelectedDevice \in Device
         /\ \A t \in Work(packet.plan) : t \in Step /\ (t[1] = 3 => SelectedDevice \in Device)
<1>1. packet \in Packet
  BY DEF TypeOK
<1>2. packet.plan \in Plan /\ packet.pre \in Config /\ packet.post \in Config
  BY <1>1 DEF Packet
<1>3. packet.plan.assignment \in {"assign", "move"} => SelectedDevice \in Device
  BY <1>2, PlansSound DEF Made
<1> QED BY <1>1, <1>2, <1>3 DEF Work

Labels == {"planned", "pre", "send", "sent", "running", "save", "saved", "startup",
           "accepted", "undo", "undone", "undo-pre", "restored"}

(* A step of the operator that keeps the packet.                           *)
LEMMA HeldGoes ==
  ASSUME Held, pc # "idle", packet' = packet, pc' \in Labels,
         running' \in Config, startup' \in Config, snapshot' \in Config,
         faults' \in 0..MaxFaults, calm' \in BOOLEAN,
         pc' \notin {"send", "undo"} => todo' = {},
         pc' = "send" => todo' \subseteq Work(packet.plan),
         pc' = "undo" => todo' \subseteq Reversals(packet.plan)
  PROVE  Held'
<1>1. packet # NoPacket /\ Made
  BY DEF Held
<1>2. packet' # NoPacket /\ pc' # "idle" /\ Made'
  BY <1>1 DEF Made, Labels
<1>3. todo' \subseteq Step
  BY DEF Work, Reversals
<1>4. TypeOK'
  BY <1>1, <1>2, <1>3 DEF TypeOK, Held, Labels
<1> QED BY <1>2, <1>4 DEF Held

(* The packet is put away.                                                 *)
LEMMA HeldRests ==
  ASSUME Held, packet' = NoPacket, pc' = "idle", todo' = {}, UNCHANGED <<router, snapshot, calm, faults>>
  PROVE  Held'
BY DEF Held, TypeOK, router

(* The operator starts without a packet, on a router at rest.               *)
LEMMA HeldInit == Init => Held
<1>1. 0 \in 0..MaxFaults
  BY ExternalAssumption
<1> QED BY <1>1, ExternalAssumption DEF Init, Held, TypeOK

(* A fault is counted within its bound.                                     *)
LEMMA FaultTyped ==
  ASSUME TypeOK, Fault
  PROVE  faults' \in 0..MaxFaults /\ faults' # 0
BY ExternalAssumption DEF TypeOK, Fault

(* Every step keeps the types, the packet and the commands left to send.    *)
LEMMA HeldStep ==
  ASSUME Held, [Next]_vars
  PROVE  Held'
<1>1. /\ TypeOK /\ running \in Config /\ startup \in Config /\ snapshot \in Config
      /\ faults \in 0..MaxFaults /\ calm \in BOOLEAN
      /\ pc \notin {"send", "undo"} => todo = {}
      /\ pc = "send" => todo \subseteq Work(packet.plan)
      /\ pc = "undo" => todo \subseteq Reversals(packet.plan)
  BY DEF Held, TypeOK
<1>2. pc # "idle" => packet # NoPacket /\ packet \in Packet /\ Made /\ packet.plan \in Plan
  BY MadeFacts DEF Held, TypeOK
<1>3. CASE MakePacket
  <2>1. PICK pl : pl \in Plans(running, TRUE) /\ packet' = PacketFor(running, pl)
    BY <1>3 DEF MakePacket
  <2>2. /\ packet' \in Packet /\ packet'.plan \in Plans(packet'.pre, TRUE)
        /\ packet'.pre = Parsed(packet'.pre)
        /\ packet'.post = Expected(packet'.pre, packet'.plan)
        /\ packet'.guard = packet'.pre.guard
    <3>1. LET p == PacketFor(running, pl) IN
          /\ p \in Packet /\ p.plan = pl /\ p.pre = Parsed(running) /\ p.intact = TRUE
          /\ p.plan \in Plans(p.pre, TRUE) /\ p.pre = Parsed(p.pre)
          /\ p.post = Expected(p.pre, p.plan) /\ p.guard = p.pre.guard
      BY <1>1, <2>1, PacketMade
    <3> QED BY <2>1, <3>1
  <2>3. /\ pc' = "planned" /\ snapshot' = running /\ calm' = TRUE /\ todo' = {}
        /\ UNCHANGED <<running, startup, faults>>
    BY <1>1, <1>3 DEF MakePacket, router
  <2>4. packet' # NoPacket
    BY <2>2, ExternalAssumption
  <2>5. TypeOK'
    BY <1>1, <2>2, <2>3, <2>4 DEF TypeOK
  <2>6. Made'
    BY <2>2 DEF Made
  <2> QED BY <2>3, <2>4, <2>5, <2>6 DEF Held
<1>4. CASE Refused
  BY <1>4 DEF Refused, vars, router, Held, TypeOK, Made
<1>5. CASE TakePre \/ TakeRunning \/ TakeSaved \/ TakeRestored
  <2>1. /\ pc \in {"planned", "sent", "saved", "undone"}
        /\ pc' \in {"pre", "running", "startup", "undo-pre"}
        /\ snapshot' \in {running, startup}
        /\ UNCHANGED <<running, startup, packet, todo, calm, faults>>
    BY <1>5 DEF TakePre, TakeRunning, TakeSaved, TakeRestored, Snap, GoTo, router
  <2> QED BY <1>1, <2>1, HeldGoes DEF Labels
<1>6. CASE VerifyPre
  <2>1. /\ pc = "pre" /\ pc' = "send" /\ todo' = Work(packet.plan)
        /\ UNCHANGED <<running, startup, packet, snapshot, calm, faults>>
    BY <1>6 DEF VerifyPre, router
  <2> QED BY <1>1, <2>1, HeldGoes DEF Labels
<1>7. CASE Stale \/ PutAway
  <2>1. /\ pc \notin {"send", "undo"} /\ pc' = "idle" /\ packet' = NoPacket
        /\ UNCHANGED <<router, snapshot, todo, calm, faults>>
    BY <1>7 DEF Stale, PutAway
  <2> QED BY <1>1, <2>1, HeldRests
<1>8. CASE Send
  <2>1. /\ pc = "send" /\ UNCHANGED <<startup, packet, snapshot, pc, calm>>
    BY <1>8 DEF Send
  <2>2. PICK t \in todo : /\ todo' = todo \ {t}
                          /\ \/ running' = Effect(running, packet.plan, t) /\ UNCHANGED faults
                             \/ Fault /\ UNCHANGED running
    BY <1>8 DEF Send
  <2>3. t \in Step /\ t[1] = 3 => SelectedDevice \in Device
    BY <1>1, <1>2, <2>1, MadeFacts
  <2>4. Effect(running, packet.plan, t) \in Config
    BY <1>1, <1>2, <2>1, <2>3, EffectFrame DEF Work
  <2>5. running' \in Config /\ faults' \in 0..MaxFaults
    BY <1>1, <2>2, <2>4, FaultTyped
  <2> QED BY <1>1, <2>1, <2>2, <2>5, HeldGoes DEF Labels
<1>9. CASE Sent \/ GiveUp
  <2>1. /\ pc = "send" /\ pc' = "sent" /\ todo' = {}
        /\ UNCHANGED <<running, startup, packet, snapshot, calm>>
        /\ faults' = faults \/ Fault
    BY <1>9 DEF Sent, GiveUp, GoTo, router
  <2>2. faults' \in 0..MaxFaults
    BY <1>1, <2>1, FaultTyped
  <2> QED BY <1>1, <2>1, <2>2, HeldGoes DEF Labels
<1>10. CASE VerifyRunning \/ VerifySaved
  <2>1. /\ pc \in {"running", "startup"} /\ UNCHANGED <<running, startup, packet, snapshot, calm, faults>>
        /\ \/ pc' \in {"save", "saved", "accepted"} /\ todo' = todo
           \/ pc' = "undo" /\ todo' = Reversals(packet.plan)
    BY <1>10 DEF VerifyRunning, VerifySaved, GoTo, TurnBack, router
  <2> QED BY <1>1, <2>1, HeldGoes DEF Labels
<1>11. CASE Save
  <2>1. /\ pc = "save" /\ pc' = "saved" /\ startup' \in {startup, running}
        /\ UNCHANGED <<running, packet, snapshot, todo, calm>>
        /\ faults' = faults \/ Fault
    BY <1>11 DEF Save, GoTo
  <2>2. faults' \in 0..MaxFaults
    BY <1>1, <2>1, FaultTyped
  <2> QED BY <1>1, <2>1, <2>2, HeldGoes DEF Labels
<1>12. CASE Undo
  <2>1. /\ pc = "undo" /\ UNCHANGED <<startup, packet, snapshot, pc, calm, faults>>
    BY <1>12 DEF Undo
  <2>2. PICK t \in todo : running' = Reversal(running, packet.plan, packet.pre, t) /\ todo' = todo \ {t}
    BY <1>12 DEF Undo, Reversed
  <2>3. t \in Step /\ t[1] = 3 => SelectedDevice \in Device
    BY <1>1, <1>2, <2>1, MadeFacts DEF Reversals
  <2>4. packet.pre \in Config /\ t \in Step
    BY <1>1, <1>2, <2>1, MadeFacts DEF Reversals, Work
  <2>5. Reversal(running, packet.plan, packet.pre, t) \in Config
    BY <1>1, <1>2, <2>1, <2>3, <2>4, ReversalFrame
  <2> QED BY <1>1, <2>1, <2>2, <2>5, HeldGoes DEF Labels
<1>13. CASE Undone
  <2>1. /\ pc = "undo" /\ pc' = "undone" /\ todo = {} /\ startup' \in {startup, running}
        /\ UNCHANGED <<running, packet, snapshot, todo, calm, faults>>
    BY <1>13 DEF Undone, GoTo
  <2> QED BY <1>1, <2>1, HeldGoes DEF Labels
<1>14. CASE VerifyRestored
  <2>1. /\ pc = "undo-pre" /\ pc' = "restored"
        /\ UNCHANGED <<running, startup, packet, snapshot, todo, calm, faults>>
    BY <1>14 DEF VerifyRestored, GoTo, router
  <2> QED BY <1>1, <2>1, HeldGoes DEF Labels
<1>15. CASE Damage
  <2>1. /\ packet # NoPacket /\ packet' = [packet EXCEPT !.intact = FALSE] /\ Fault
        /\ UNCHANGED <<running, startup, snapshot, pc, todo, calm>>
    BY <1>15 DEF Damage, router
  <2>2. packet \in Packet
    BY <1>1, <2>1 DEF TypeOK
  <2>3. /\ packet' \in Packet /\ packet'.plan = packet.plan /\ packet'.pre = packet.pre
        /\ packet'.post = packet.post /\ packet'.guard = packet.guard
    BY <2>1, <2>2 DEF Packet
  <2>4. packet' # NoPacket
    BY <2>3, ExternalAssumption
  <2>5. pc # "idle" /\ Made
    BY <2>1 DEF Held
  <2>6. Made'
    BY <2>3, <2>5 DEF Made
  <2>7. TypeOK'
    <3>1. faults' \in 0..MaxFaults
      BY <1>1, <2>1, FaultTyped
    <3>2. packet' \in Packet \cup {NoPacket} /\ (pc # "idle" => packet' # NoPacket)
      BY <2>3, <2>4
    <3> QED BY <1>1, <2>1, <3>1, <3>2 DEF TypeOK
  <2>8. /\ pc' = "send" => todo' \subseteq Work(packet'.plan)
        /\ pc' = "undo" => todo' \subseteq Reversals(packet'.plan)
        /\ pc' \notin {"send", "undo"} => todo' = {}
    BY <1>1, <2>1, <2>3
  <2> QED BY <2>1, <2>4, <2>5, <2>6, <2>7, <2>8 DEF Held
<1>16. CASE Restart \/ Administrator
  <2>1. /\ running' \in Edited(running) \cup {startup} /\ startup' \in {startup, running'} /\ Fault
        /\ calm' = FALSE /\ UNCHANGED <<packet, snapshot, pc, todo>>
    BY <1>16 DEF Restart, Administrator
  <2>2. running' \in Config /\ startup' \in Config /\ faults' \in 0..MaxFaults
    BY <1>1, <2>1, EditTyped, FaultTyped
  <2>3. TypeOK'
    BY <1>1, <2>1, <2>2 DEF TypeOK
  <2>4. Made => Made'
    BY <2>1 DEF Made
  <2> QED BY <2>1, <2>3, <2>4 DEF Held
<1>17. CASE UNCHANGED vars
  BY <1>17 DEF vars, router, Held, TypeOK, Made
<1> QED
  BY <1>3, <1>4, <1>5, <1>6, <1>7, <1>8, <1>9, <1>10, <1>11, <1>12, <1>13, <1>14, <1>15, <1>16, <1>17
  DEF Next

(* The whole set grows from a part of it.                                  *)
LEMMA ApartGrows ==
  ASSUME NEW new, NEW old, NEW pl, NEW S, NEW T, S \subseteq T, Apart(new, old, pl, S)
  PROVE  Apart(new, old, pl, T)
BY DEF Apart

(* Where the configurations are, step by step.                             *)
LEMMA FollowedStep ==
  ASSUME Held, Held', Followed, [Next]_vars
  PROVE  Followed'
<1> SUFFICES ASSUME calm', pc' # "idle"
             PROVE  Followed'
  BY DEF Followed
<1>1. /\ TypeOK /\ running \in Config /\ startup \in Config
      /\ pc = "send" => todo \subseteq Work(packet.plan)
      /\ pc = "undo" => todo \subseteq Reversals(packet.plan)
  BY DEF Held, TypeOK
<1>2. pc # "idle" => /\ packet \in Packet /\ Made /\ packet.plan \in Plan /\ packet.pre \in Config
                     /\ packet.plan \in Plans(packet.pre, TRUE)
  BY MadeFacts DEF Held, TypeOK, Made
<1>3. CASE MakePacket
  <2>1. PICK pl : pl \in Plans(running, TRUE) /\ packet' = PacketFor(running, pl)
    BY <1>3 DEF MakePacket
  <2>2. packet'.pre = Parsed(running)
    BY <1>1, <2>1, PacketMade
  <2>3. pc' = "planned" /\ UNCHANGED <<running, startup>>
    BY <1>3 DEF MakePacket, router
  <2>4. Touched' = {}
    BY <2>3 DEF Touched
  <2>5. Apart(Parsed(running)', packet'.pre, packet'.plan, Touched')
    BY <2>2, <2>3, <2>4 DEF Apart
  <2> QED BY <2>3, <2>5 DEF Followed
<1>4. CASE Refused
  BY <1>4 DEF Refused, vars, router, Followed, Touched
<1>5. CASE TakePre \/ TakeRunning \/ TakeSaved \/ TakeRestored
  <2>1. /\ \/ pc = "planned" /\ pc' = "pre"
           \/ pc = "sent" /\ pc' = "running" /\ snapshot' = running
           \/ pc = "saved" /\ pc' = "startup" /\ snapshot' = startup
           \/ pc = "undone" /\ pc' = "undo-pre"
        /\ UNCHANGED <<running, startup, packet, todo, calm, faults>>
    BY <1>5 DEF TakePre, TakeRunning, TakeSaved, TakeRestored, Snap, GoTo, router
  <2>2. Touched' = Touched
    BY <2>1 DEF Touched
  <2> QED BY <2>1, <2>2 DEF Followed
<1>6. CASE VerifyPre
  <2>1. /\ pc = "pre" /\ pc' = "send"
        /\ UNCHANGED <<running, startup, packet, snapshot, calm, faults>>
    BY <1>6 DEF VerifyPre, router
  <2>2. Touched = {} /\ Touched' = Work(packet.plan)
    BY <2>1 DEF Touched
  <2>3. Apart(Parsed(running), packet.pre, packet.plan, Touched')
    BY <2>1, <2>2, ApartGrows DEF Followed
  <2> QED BY <2>1, <2>3 DEF Followed
<1>7. CASE Stale \/ PutAway
  BY <1>7 DEF Stale, PutAway
<1>8. CASE Send
  <2>1. /\ pc = "send" /\ UNCHANGED <<startup, packet, snapshot, pc, calm>>
    BY <1>8 DEF Send
  <2>2. PICK t \in todo : /\ todo' = todo \ {t}
                          /\ \/ running' = Effect(running, packet.plan, t)
                             \/ running' = running
    BY <1>8 DEF Send
  <2>3. Touched = Work(packet.plan) /\ Touched' = Work(packet.plan)
    BY <2>1 DEF Touched
  <2>4. Apart(Parsed(running), packet.pre, packet.plan, Work(packet.plan))
    BY <2>1, <2>3 DEF Followed
  <2>5. t \in Work(packet.plan) /\ (t[1] = 3 => SelectedDevice \in Device)
    BY <1>1, <1>2, <2>1, MadeFacts DEF Held
  <2>6. Apart(Parsed(Effect(running, packet.plan, t)), packet.pre, packet.plan, Work(packet.plan))
    BY <1>1, <1>2, <2>1, <2>4, <2>5, SendApart
  <2>7. Apart(Parsed(running'), packet.pre, packet.plan, Work(packet.plan))
    BY <2>2, <2>4, <2>6
  <2> QED BY <2>1, <2>3, <2>7 DEF Followed
<1>9. CASE Sent \/ GiveUp
  <2>1. /\ pc = "send" /\ pc' = "sent" /\ UNCHANGED <<running, startup, packet, snapshot, calm>>
    BY <1>9 DEF Sent, GiveUp, GoTo, router
  <2>2. Touched' = Touched
    BY <2>1 DEF Touched
  <2> QED BY <2>1, <2>2 DEF Followed
<1>10. CASE VerifyRunning \/ VerifySaved
  <2>1. /\ pc \in {"running", "startup"}
        /\ UNCHANGED <<running, startup, packet, snapshot, calm, faults>>
    BY <1>10 DEF VerifyRunning, VerifySaved, GoTo, TurnBack, router
  <2>2. Apart(Parsed(running), packet.pre, packet.plan, Work(packet.plan))
    BY <2>1 DEF Followed, Touched
  <2>3. CASE PostMatches(packet, snapshot)
    <3>1. \/ pc = "running" /\ pc' \in {"save", "saved"}
          \/ pc = "startup" /\ pc' = "accepted"
      BY <1>10, <2>3 DEF VerifyRunning, VerifySaved, GoTo
    <3>2. Touched' = Work(packet.plan)
      BY <2>1, <3>1 DEF Touched
    <3>3. /\ Parsed(snapshot) = packet.post /\ Applied(snapshot, packet.plan)
          /\ AllReused(snapshot, packet.plan)
      BY <2>3 DEF PostMatches
    <3>4. /\ pc = "running" => snapshot = running
          /\ pc = "startup" => snapshot = startup /\ Parsed(running) = packet.post
      BY <2>1 DEF Followed
    <3> QED BY <2>1, <2>2, <3>1, <3>2, <3>3, <3>4 DEF Followed
  <2>4. CASE ~PostMatches(packet, snapshot)
    <3>1. pc' = "undo" /\ todo' = Reversals(packet.plan)
      BY <1>10, <2>4 DEF VerifyRunning, VerifySaved, TurnBack
    <3>2. Touched' = Reversals(packet.plan)
      BY <3>1 DEF Touched
    <3>3. Apart(Parsed(running), packet.pre, packet.plan, Reversals(packet.plan))
      BY <2>2, TurnApart
    <3> QED BY <2>1, <3>1, <3>2, <3>3 DEF Followed
  <2> QED BY <2>3, <2>4
<1>11. CASE Save
  <2>1. /\ pc = "save" /\ pc' = "saved" /\ UNCHANGED <<running, packet, snapshot, todo, calm>>
    BY <1>11 DEF Save, GoTo
  <2>2. Touched' = Touched
    BY <2>1 DEF Touched
  <2> QED BY <2>1, <2>2 DEF Followed
<1>12. CASE Undo
  <2>1. /\ pc = "undo" /\ UNCHANGED <<startup, packet, snapshot, pc, calm, faults>>
    BY <1>12 DEF Undo
  <2>2. PICK t \in todo : running' = Reversal(running, packet.plan, packet.pre, t) /\ todo' = todo \ {t}
    BY <1>12 DEF Undo, Reversed
  <2>3. Touched = todo /\ Touched' = todo \ {t}
    BY <2>1, <2>2 DEF Touched
  <2>4. Apart(Parsed(running), packet.pre, packet.plan, todo)
    BY <2>1, <2>3 DEF Followed
  <2>5. Apart(Parsed(Reversal(running, packet.plan, packet.pre, t)), packet.pre, packet.plan, todo \ {t})
    BY <1>1, <1>2, <2>1, <2>4, UndoApart
  <2>6. Apart(Parsed(running'), packet.pre, packet.plan, todo \ {t})
    BY <2>2, <2>5
  <2> QED BY <2>1, <2>3, <2>6 DEF Followed
<1>13. CASE Undone
  <2>1. /\ pc = "undo" /\ pc' = "undone" /\ todo = {}
        /\ UNCHANGED <<running, packet, snapshot, todo, calm, faults>>
    BY <1>13 DEF Undone, GoTo
  <2>2. Touched' = Touched
    BY <2>1 DEF Touched
  <2> QED BY <2>1, <2>2 DEF Followed
<1>14. CASE VerifyRestored
  <2>1. /\ pc = "undo-pre" /\ pc' = "restored"
        /\ UNCHANGED <<running, startup, packet, snapshot, todo, calm, faults>>
    BY <1>14 DEF VerifyRestored, GoTo, router
  <2>2. Touched' = Touched
    BY <2>1 DEF Touched
  <2> QED BY <2>1, <2>2 DEF Followed
<1>15. CASE Damage
  <2>1. /\ packet' = [packet EXCEPT !.intact = FALSE]
        /\ UNCHANGED <<running, startup, snapshot, pc, todo, calm>>
    BY <1>15 DEF Damage, router
  <2>2. packet \in Packet
    BY <1>2, <2>1
  <2>3. /\ packet'.plan = packet.plan /\ packet'.pre = packet.pre /\ packet'.post = packet.post
    BY <2>1, <2>2 DEF Packet
  <2>4. Touched' = Touched
    BY <2>1, <2>3 DEF Touched
  <2> QED BY <2>1, <2>3, <2>4 DEF Followed
<1>16. CASE Restart \/ Administrator
  BY <1>16 DEF Restart, Administrator
<1>17. CASE UNCHANGED vars
  BY <1>17 DEF vars, router, Followed, Touched
<1> QED
  BY <1>3, <1>4, <1>5, <1>6, <1>7, <1>8, <1>9, <1>10, <1>11, <1>12, <1>13, <1>14, <1>15, <1>16, <1>17
  DEF Next

-----------------------------------------------------------------------------
(* Nothing lost: the commands reach what the packet expects *)

(* The assignment a plan carries is the one its configuration calls for.    *)
LEMMA PlanAssigns ==
  ASSUME NEW cfg \in Config, NEW m, NEW pl \in Plans(cfg, m)
  PROVE  pl.assignment = AssignmentAction(cfg, pl.policy)
<1> DEFINE newproxy == {s \in Slot : ServingProxies(cfg, s) = {}}
           newpolicy(f) == {s \in Slot : ServingPolicies(cfg, f[s]) = {}}
<1>1. PICK c \in [proxy : [Slot -> ProxyIndex], policy : [Slot -> PolicyIndex]] :
        pl = [proxy |-> c.proxy, newproxy |-> newproxy,
              policy |-> c.policy, newpolicy |-> newpolicy(c.proxy),
              assignment |-> AssignmentAction(cfg, c.policy)]
  BY DEF Plans
<1> HIDE DEF newproxy, newpolicy
<1> QED BY <1>1

(* The configuration a packet expects has its plan in force, and a plan    *)
(* for it chooses the same objects again (_expected_post_state against     *)
(* _verify_plan_applied and _semantic_post_plan).                          *)
LEMMA ExpectedApplied ==
  ASSUME NEW cfg \in Config, NEW m, NEW pl \in Plans(cfg, m), Parsed(cfg) = cfg
  PROVE  Applied(Expected(cfg, pl), pl) /\ AllReused(Expected(cfg, pl), pl)
<1> DEFINE post == Expected(cfg, pl)
<1>1. /\ post \in Config
      /\ \A s \in pl.newproxy : post.proxies[pl.proxy[s]] = ProxyOf(s)
      /\ \A i \in ProxyIndex :
           (\A s \in pl.newproxy : pl.proxy[s] # i) => post.proxies[i] = cfg.proxies[i]
      /\ \A s \in pl.newpolicy :
           post.policies[pl.policy[s]] = [name |-> s, permits |-> {pl.proxy[s]}]
      /\ \A j \in PolicyIndex :
           (\A s \in pl.newpolicy : pl.policy[s] # j) => post.policies[j] = cfg.policies[j]
      /\ \A d \in Device :
           post.assigned[d] = IF pl.assignment \in {"assign", "move"} /\ d = SelectedDevice
                              THEN pl.policy[SelectedSlot] ELSE cfg.assigned[d]
  BY ExpectedFields
<1> HIDE DEF post
<1>2. /\ pl \in Plan /\ pl.newproxy \subseteq Slot /\ pl.newpolicy \subseteq Slot
      /\ \A s \in pl.newproxy : cfg.proxies[pl.proxy[s]] = Absent
      /\ \A s \in pl.newpolicy : cfg.policies[pl.policy[s]] = Absent
  BY PlansSound, NewApart
<1>3. ProxyChoice(cfg, pl.proxy, pl.newproxy) /\ PolicyChoice(cfg, pl.proxy, pl.policy, pl.newpolicy)
  BY PlanReads
<1>4. ASSUME NEW s \in Slot
      PROVE  LET x == post.proxies[pl.proxy[s]]
             IN  x # Absent /\ ProxyServes(x, s) /\ (s \in pl.newproxy => x.name = s)
  <2> DEFINE x == post.proxies[pl.proxy[s]]
  <2>1. CASE s \in pl.newproxy
    <3>1. x = ProxyOf(s) /\ ProxyOf(s) \in Proxy
      <4>1. s \in 0..Profiles /\ Enabled[s] \in BOOLEAN
        BY RouterAssumption DEF Slot
      <4> QED BY <1>1, <2>1, <4>1 DEF ProxyOf, Proxy
    <3>2. x # Absent
      BY <3>1, AbsentAssumption
    <3>3. ProxyServes(ProxyOf(s), s) /\ ProxyOf(s).name = s
      BY DEF ProxyServes, ProxyOf
    <3> QED BY <3>1, <3>2, <3>3
  <2>2. CASE s \notin pl.newproxy
    <3>1. pl.proxy[s] \in ServingProxies(cfg, s)
      BY <1>3, <2>2 DEF ProxyChoice
    <3>2. cfg.proxies[pl.proxy[s]] # Absent /\ ProxyServes(cfg.proxies[pl.proxy[s]], s)
      BY <3>1 DEF ServingProxies, ProxiesOf
    <3>3. pl.proxy[s] \in ProxyIndex /\ \A r \in pl.newproxy : pl.proxy[r] # pl.proxy[s]
      BY <1>2, <3>2 DEF Plan
    <3>4. x = cfg.proxies[pl.proxy[s]]
      BY <1>1, <3>3
    <3> QED BY <2>2, <3>2, <3>4
  <2> QED BY <2>1, <2>2
<1>5. ASSUME NEW s \in Slot
      PROVE  LET y == post.policies[pl.policy[s]]
             IN  y # Absent /\ PolicyServes(y, pl.proxy[s]) /\ (s \in pl.newpolicy => y.name = s)
  <2> DEFINE y == post.policies[pl.policy[s]]
  <2>1. CASE s \in pl.newpolicy
    <3>1. y = [name |-> s, permits |-> {pl.proxy[s]}] /\ y \in Policy
      <4>1. s \in 0..Profiles /\ pl.proxy[s] \in ProxyIndex
        BY <1>2, RouterAssumption DEF Slot, Plan
      <4> QED BY <1>1, <2>1, <4>1 DEF Policy
    <3>2. y # Absent
      BY <3>1, AbsentAssumption
    <3> HIDE DEF y
    <3> QED BY <3>1, <3>2 DEF PolicyServes, y
  <2>2. CASE s \notin pl.newpolicy
    <3>1. pl.policy[s] \in ServingPolicies(cfg, pl.proxy[s])
      BY <1>3, <2>2 DEF PolicyChoice
    <3>2. cfg.policies[pl.policy[s]] # Absent /\ PolicyServes(cfg.policies[pl.policy[s]], pl.proxy[s])
      BY <3>1 DEF ServingPolicies, PoliciesOf
    <3>3. pl.policy[s] \in PolicyIndex /\ \A r \in pl.newpolicy : pl.policy[r] # pl.policy[s]
      BY <1>2, <3>2 DEF Plan
    <3>4. y = cfg.policies[pl.policy[s]]
      BY <1>1, <3>3
    <3> QED BY <2>2, <3>2, <3>4
  <2> QED BY <2>1, <2>2
<1>6. SelectedDevice # NoDevice => post.assigned[SelectedDevice] = pl.policy[SelectedSlot]
  <2> SUFFICES ASSUME SelectedDevice # NoDevice
               PROVE  post.assigned[SelectedDevice] = pl.policy[SelectedSlot]
    OBVIOUS
  <2>1. SelectedDevice \in Device
    BY RouterAssumption
  <2>2. \/ pl.assignment \in {"assign", "move"}
        \/ cfg.assigned[SelectedDevice] = pl.policy[SelectedSlot]
    BY PlanAssigns DEF AssignmentAction
  <2> QED BY <1>1, <2>1, <2>2
<1>7. Applied(post, pl)
  BY <1>4, <1>5, <1>6 DEF Applied
<1>8. Within(post, cfg, pl)
  BY <1>1 DEF Within
<1>9. AllReused(post, pl)
  BY <1>1, <1>7, <1>8, ReusedAgain
<1> QED BY <1>7, <1>9 DEF post

(* A plan that writes nothing expects nothing else.                        *)
LEMMA ExpectedSame ==
  ASSUME NEW cfg \in Config, NEW m, NEW pl \in Plans(cfg, m), Parsed(cfg) = cfg, ~WriteRequired(pl)
  PROVE  Expected(cfg, pl) = cfg
<1> DEFINE post == Expected(cfg, pl)
<1>1. pl.newproxy = {} /\ pl.newpolicy = {} /\ pl.assignment \notin {"assign", "move"}
  BY DEF WriteRequired
<1>2. /\ post \in Config /\ post.guard = cfg.guard
      /\ \A i \in ProxyIndex : post.proxies[i] = cfg.proxies[i]
      /\ \A j \in PolicyIndex : post.policies[j] = cfg.policies[j]
      /\ \A d \in Device : post.assigned[d] = cfg.assigned[d]
  BY <1>1, ExpectedFields
<1> HIDE DEF post
<1>3. /\ post.proxies = cfg.proxies /\ post.policies = cfg.policies /\ post.assigned = cfg.assigned
  BY <1>2 DEF Config
<1>4. post = cfg
  BY <1>2, <1>3 DEF Config
<1> QED BY <1>4 DEF post

(* The generator makes enabled endpoints only (generate-xray-profiles.py); *)
(* proxy_create_commands end with "up" for every one of them.              *)
AllEnabled == \A s \in Slot : Enabled[s]

(* A new proxy with all its commands.                                      *)
Finished(x, s) ==
  x # Absent /\ x.name = s /\ ~x.auth /\ x.socks /\ x.upstream = s /\ x.up

(* Every command of the plan is in the configuration.                      *)
AllFinished(cfg, pl) ==
  /\ \A s \in pl.newproxy : Finished(cfg.proxies[pl.proxy[s]], s)
  /\ \A s \in pl.newpolicy :
       LET y == cfg.policies[pl.policy[s]]
       IN  y # Absent /\ y.name = s /\ y.permits = {pl.proxy[s]}
  /\ pl.assignment \in {"assign", "move"} =>
       cfg.assigned[SelectedDevice] = pl.policy[SelectedSlot]

(* With all commands carried over, the parser sees what the packet expects.*)
LEMMA BuiltReaches ==
  ASSUME AllEnabled, NEW cfg \in Config, NEW m, NEW pl \in Plans(cfg, m), Parsed(cfg) = cfg,
         NEW new \in Config, Apart(Parsed(new), cfg, pl, Work(pl)), AllFinished(new, pl)
  PROVE  Parsed(new) = Expected(cfg, pl)
<1> DEFINE post == Expected(cfg, pl)
           seen == Parsed(new)
<1>a. /\ \A s \in pl.newproxy : Finished(new.proxies[pl.proxy[s]], s)
      /\ \A s \in pl.newpolicy :
           new.policies[pl.policy[s]] # Absent /\ new.policies[pl.policy[s]].name = s
             /\ new.policies[pl.policy[s]].permits = {pl.proxy[s]}
      /\ pl.assignment \in {"assign", "move"} =>
           new.assigned[SelectedDevice] = pl.policy[SelectedSlot]
  BY DEF AllFinished
<1>1. /\ post \in Config /\ post.guard = cfg.guard
      /\ \A s \in pl.newproxy : post.proxies[pl.proxy[s]] = ProxyOf(s)
      /\ \A i \in ProxyIndex :
           (\A s \in pl.newproxy : pl.proxy[s] # i) => post.proxies[i] = cfg.proxies[i]
      /\ \A s \in pl.newpolicy :
           post.policies[pl.policy[s]] = [name |-> s, permits |-> {pl.proxy[s]}]
      /\ \A j \in PolicyIndex :
           (\A s \in pl.newpolicy : pl.policy[s] # j) => post.policies[j] = cfg.policies[j]
      /\ \A d \in Device :
           post.assigned[d] = IF pl.assignment \in {"assign", "move"} /\ d = SelectedDevice
                              THEN pl.policy[SelectedSlot] ELSE cfg.assigned[d]
  BY ExpectedFields
<1>2. /\ seen \in Config /\ seen.policies = new.policies /\ seen.assigned = new.assigned
  BY ParsedFields
<1>3. /\ pl \in Plan /\ pl.newproxy \subseteq Slot /\ pl.newpolicy \subseteq Slot
      /\ pl.assignment \in {"assign", "move"} => SelectedDevice \in Device
  BY PlansSound, NewApart
<1>4. ASSUME NEW s \in pl.newproxy
      PROVE  seen.proxies[pl.proxy[s]] = ProxyOf(s)
  <2> DEFINE x == new.proxies[pl.proxy[s]]
             z == seen.proxies[pl.proxy[s]]
  <2>1. pl.proxy[s] \in ProxyIndex /\ Enabled[s] = TRUE
    BY <1>3, RouterAssumption DEF AllEnabled, Plan
  <2>2. x # Absent /\ x.name = s /\ ~x.auth /\ x.socks /\ x.upstream = s /\ x.up
    BY <1>a DEF Finished
  <2>3. /\ z.name = x.name /\ z.socks = x.socks /\ z.upstream = x.upstream
        /\ z.up = x.up /\ z.auth = x.auth /\ z.public = FALSE /\ x \in Proxy /\ z \in Proxy
    <3> DEFINE i == pl.proxy[s]
    <3>1. i \in ProxyIndex /\ new.proxies[i] # Absent
      BY <2>1, <2>2
    <3> HIDE DEF i
    <3>2. LET v == new.proxies[i]
              w == Parsed(new).proxies[i]
          IN  /\ w.name = v.name /\ w.socks = v.socks /\ w.upstream = v.upstream
              /\ w.up = v.up /\ w.auth = v.auth /\ w.public = FALSE /\ v \in Proxy /\ w \in Proxy
      BY <3>1, ParsedProxy
    <3> QED BY <3>2 DEF i
  <2> HIDE DEF x, z
  <2>4. x.socks = TRUE /\ x.up = TRUE /\ x.auth = FALSE
    BY <2>2, <2>3 DEF Proxy
  <2>5. /\ z.name = s /\ z.socks = TRUE /\ z.upstream = s /\ z.up = Enabled[s] /\ z.auth = FALSE
        /\ z.public = FALSE
    BY <2>1, <2>2, <2>3, <2>4
  <2>6. z = [name |-> z.name, public |-> z.public, socks |-> z.socks, upstream |-> z.upstream,
             up |-> z.up, auth |-> z.auth]
    BY <2>3 DEF Proxy
  <2>7. z = ProxyOf(s)
    BY <2>5, <2>6 DEF ProxyOf
  <2> QED BY <2>7 DEF z
<1>5. ASSUME NEW s \in pl.newpolicy
      PROVE  seen.policies[pl.policy[s]] = [name |-> s, permits |-> {pl.proxy[s]}]
  <2> DEFINE y == new.policies[pl.policy[s]]
  <2>1. pl.policy[s] \in PolicyIndex
    BY <1>3 DEF Plan
  <2>2. y # Absent /\ y.name = s /\ y.permits = {pl.proxy[s]}
    BY <1>a
  <2>3. y \in Policy
    BY <2>1, <2>2 DEF Config
  <2> HIDE DEF y
  <2>4. y = [name |-> s, permits |-> {pl.proxy[s]}]
    BY <2>2, <2>3 DEF Policy
  <2> QED BY <1>2, <2>4 DEF y
<1> HIDE DEF post, seen
<1>6. \A i \in ProxyIndex : seen.proxies[i] = post.proxies[i]
  <2> SUFFICES ASSUME NEW i \in ProxyIndex
               PROVE  seen.proxies[i] = post.proxies[i]
    OBVIOUS
  <2>1. CASE \E s \in pl.newproxy : pl.proxy[s] = i
    BY <1>1, <1>4, <2>1
  <2>2. CASE \A s \in pl.newproxy : pl.proxy[s] # i
    <3>1. seen.proxies[i] = cfg.proxies[i]
      BY <2>2 DEF Apart, Work, seen
    <3> QED BY <1>1, <2>2, <3>1
  <2> QED BY <2>1, <2>2
<1>7. \A j \in PolicyIndex : seen.policies[j] = post.policies[j]
  <2> SUFFICES ASSUME NEW j \in PolicyIndex
               PROVE  seen.policies[j] = post.policies[j]
    OBVIOUS
  <2>1. CASE \E s \in pl.newpolicy : pl.policy[s] = j
    <3>1. PICK s \in pl.newpolicy : pl.policy[s] = j
      BY <2>1
    <3>2. seen.policies[pl.policy[s]] = post.policies[pl.policy[s]]
      <4>1. seen.policies[pl.policy[s]] = [name |-> s, permits |-> {pl.proxy[s]}]
        BY <1>5
      <4>2. post.policies[pl.policy[s]] = [name |-> s, permits |-> {pl.proxy[s]}]
        BY <1>1
      <4> QED BY <4>1, <4>2
    <3> QED BY <3>1, <3>2
  <2>2. CASE \A s \in pl.newpolicy : pl.policy[s] # j
    <3>1. seen.policies[j] = cfg.policies[j]
      BY <2>2 DEF Apart, Work, seen
    <3> QED BY <1>1, <2>2, <3>1
  <2> QED BY <2>1, <2>2
<1>8. \A d \in Device : seen.assigned[d] = post.assigned[d]
  <2> SUFFICES ASSUME NEW d \in Device
               PROVE  seen.assigned[d] = post.assigned[d]
    OBVIOUS
  <2>1. CASE pl.assignment \in {"assign", "move"} /\ d = SelectedDevice
    BY <1>a, <1>1, <1>2, <2>1
  <2>2. CASE ~(pl.assignment \in {"assign", "move"} /\ d = SelectedDevice)
    <3>1. seen.assigned[d] = cfg.assigned[d]
      BY <2>2 DEF Apart, Work, seen
    <3> QED BY <1>1, <2>2, <3>1
  <2> QED BY <2>1, <2>2
<1>9. seen.guard = post.guard
  BY <1>1 DEF Apart, seen
<1>10. /\ seen.proxies = post.proxies /\ seen.policies = post.policies
       /\ seen.assigned = post.assigned
  BY <1>1, <1>2, <1>6, <1>7, <1>8 DEF Config
<1>11. seen = post
  BY <1>1, <1>2, <1>9, <1>10 DEF Config
<1> QED BY <1>11 DEF seen, post

(* Before the first command nothing of the plan is there.                  *)
LEMMA BuiltStarts ==
  ASSUME NEW old \in Config, NEW m, NEW pl \in Plans(old, m),
         NEW cfg \in Config, Parsed(cfg) = old
  PROVE  Built(cfg, pl, Work(pl))
<1>1. pl \in Plan /\ pl.newproxy \subseteq Slot /\ pl.newpolicy \subseteq Slot
  BY PlansSound, NewApart
<1>2. /\ \A s \in pl.newproxy : old.proxies[pl.proxy[s]] = Absent
      /\ \A s \in pl.newpolicy : old.policies[pl.policy[s]] = Absent
  BY PlansSound
<1>3. \A s \in Slot, k \in 1..5 : <<1, s, k>> \in Work(pl) <=> s \in pl.newproxy
  BY DEF Work, Step, ProxyCommands, PolicyCommands
<1>4. \A s \in Slot, k \in 1..2 : <<2, s, k>> \in Work(pl) <=> s \in pl.newpolicy
  BY DEF Work, Step, ProxyCommands, PolicyCommands
<1>5. pl.assignment \in {"assign", "move"} => <<3, SelectedSlot, 1>> \in Work(pl)
  BY DEF Work, Step
<1>6. ASSUME NEW s \in pl.newproxy
      PROVE  ProxyBuilt(cfg.proxies[pl.proxy[s]], s, Work(pl))
  <2> DEFINE i == pl.proxy[s]
  <2>1. i \in ProxyIndex /\ Parsed(cfg).proxies[i] = Absent
    BY <1>1, <1>2 DEF Plan
  <2> HIDE DEF i
  <2>2. cfg.proxies[i] = Absent
    BY <2>1, ParsedProxy
  <2>3. <<1, s, 1>> \in Work(pl)
    <3>1. s \in Slot /\ 1 \in 1..5
      BY <1>1
    <3> QED BY <1>3, <3>1, Zenon
  <2> QED BY <2>2, <2>3 DEF ProxyBuilt, i
<1>7. ASSUME NEW s \in pl.newpolicy
      PROVE  PolicyBuilt(cfg.policies[pl.policy[s]], s, pl.proxy[s], Work(pl))
  <2>1. Parsed(cfg).policies = cfg.policies
    BY ParsedFields
  <2>2. cfg.policies[pl.policy[s]] = Absent
    BY <1>2, <2>1
  <2>3. <<2, s, 1>> \in Work(pl)
    <3>1. s \in Slot /\ 1 \in 1..2
      BY <1>1
    <3> QED BY <1>4, <3>1, Zenon
  <2> QED BY <2>2, <2>3 DEF PolicyBuilt
<1>8. Opening(Work(pl))
  <2>1. 1 \in 1..5 /\ 3 \in 1..5 /\ 4 \in 1..5 /\ 5 \in 1..5 /\ 1 \in 1..2 /\ 2 \in 1..2
    OBVIOUS
  <2> QED BY <1>3, <1>4, <2>1, Zenon DEF Opening
<1> QED BY <1>5, <1>6, <1>7, <1>8 DEF Built

(* The field by field effect of a command on a proxy.                      *)
Advanced(z, x, s, k) ==
  /\ z \in Proxy /\ z # Absent
  /\ z.name = IF k = 1 THEN s ELSE x.name
  /\ z.auth = x.auth
  /\ z.socks = (x.socks \/ k = 3)
  /\ z.upstream = IF k = 4 THEN s ELSE x.upstream
  /\ z.up = (x.up \/ k = 5)

(* ProxyAfter has that effect (proxy_create_commands).                      *)
LEMMA ProxyAdvances ==
  ASSUME NEW x \in Proxy, NEW s \in 0..Profiles, NEW k \in 1..5
  PROVE  Advanced(ProxyAfter(x, s, k), x, s, k)
<1> DEFINE z == ProxyAfter(x, s, k)
<1>1. z \in Proxy
  BY ZenonT(60) DEF ProxyAfter, Proxy
<1>2. z # Absent
  BY <1>1, AbsentAssumption
<1>3. /\ z.name = IF k = 1 THEN s ELSE x.name
      /\ z.auth = x.auth
      /\ z.socks = (x.socks \/ k = 3)
      /\ z.upstream = IF k = 4 THEN s ELSE x.upstream
      /\ z.up = (x.up \/ k = 5)
  BY DEF ProxyAfter, Proxy
<1> QED BY <1>1, <1>2, <1>3 DEF Advanced

(* A command brings its proxy one command further.                         *)
LEMMA ProxyBuilds ==
  ASSUME NEW x \in Proxy \cup {Absent}, NEW s \in Slot, NEW k \in 1..5, NEW T,
         ProxyBuilt(x, s, T), <<1, s, k>> \in T, k # 1 => <<1, s, 1>> \notin T, Opening(T)
  PROVE  ProxyBuilt(ProxyAfter(OrBlank(x, BlankProxy), s, k), s, T \ {<<1, s, k>>})
<1> DEFINE z == ProxyAfter(OrBlank(x, BlankProxy), s, k)
           U == T \ {<<1, s, k>>}
<1>1. s \in 0..Profiles /\ 0 \in 0..Profiles
  BY RouterAssumption DEF Slot
<1>2. \A n : <<1, s, n>> \in U <=> <<1, s, n>> \in T /\ n # k
  OBVIOUS
<1>3. CASE k = 1
  <2>1. OrBlank(x, BlankProxy) = BlankProxy /\ BlankProxy \in Proxy
    BY <1>1, <1>3 DEF ProxyBuilt, OrBlank, BlankProxy, Proxy
  <2>2. /\ z # Absent /\ z \in Proxy /\ z.name = s /\ z.auth = BlankProxy.auth
        /\ z.socks = BlankProxy.socks /\ z.upstream = BlankProxy.upstream /\ z.up = BlankProxy.up
    <3>a. z = ProxyAfter(BlankProxy, s, k)
      BY <2>1
    <3>b. Advanced(ProxyAfter(BlankProxy, s, k), BlankProxy, s, k)
      BY <1>1, <2>1, ProxyAdvances
    <3> HIDE DEF z
    <3>1. Advanced(z, BlankProxy, s, k)
      BY <3>a, <3>b
    <3>2. BlankProxy.socks \in BOOLEAN /\ BlankProxy.up \in BOOLEAN
      BY DEF BlankProxy
    <3> QED BY <1>3, <2>1, <3>1, <3>2 DEF Advanced
  <2>3. /\ BlankProxy.auth = FALSE /\ BlankProxy.socks = FALSE /\ BlankProxy.upstream = 0
        /\ BlankProxy.up = FALSE
    BY DEF BlankProxy
  <2>4. /\ <<1, s, 1>> \notin U
        /\ <<1, s, 3>> \in U /\ <<1, s, 4>> \in U /\ <<1, s, 5>> \in U
    <3>1. <<1, s, 3>> \in T /\ <<1, s, 4>> \in T /\ <<1, s, 5>> \in T
      BY <1>3 DEF Opening
    <3> HIDE DEF U
    <3> QED BY <1>2, <1>3, <3>1
  <2> HIDE DEF z, U
  <2>5. ProxyBuilt(z, s, U)
    BY <2>2, <2>3, <2>4 DEF ProxyBuilt
  <2> QED BY <2>5 DEF z, U
<1>4. CASE k # 1
  <2>1. <<1, s, 1>> \notin T
    BY <1>4
  <2>2. /\ x # Absent /\ x.name = s /\ ~x.auth
        /\ x.socks <=> <<1, s, 3>> \notin T
        /\ x.upstream = IF <<1, s, 4>> \in T THEN 0 ELSE s
        /\ x.up <=> <<1, s, 5>> \notin T
    BY <2>1 DEF ProxyBuilt
  <2>3. x \in Proxy /\ OrBlank(x, BlankProxy) = x
    BY <2>2 DEF OrBlank
  <2>4. /\ z \in Proxy /\ z # Absent /\ z.name = s /\ ~z.auth
        /\ z.socks = (x.socks \/ k = 3)
        /\ z.upstream = IF k = 4 THEN s ELSE x.upstream
        /\ z.up = (x.up \/ k = 5)
    <3>a. z = ProxyAfter(x, s, k)
      BY <2>3
    <3>b. Advanced(ProxyAfter(x, s, k), x, s, k)
      BY <1>1, <2>3, ProxyAdvances
    <3> HIDE DEF z
    <3>1. Advanced(z, x, s, k)
      BY <3>a, <3>b
    <3> QED BY <1>4, <2>2, <2>3, <3>1 DEF Advanced
  <2> HIDE DEF z, U
  <2>5. <<1, s, 1>> \notin U
    BY <1>2, <2>1
  <2>6. z.socks <=> <<1, s, 3>> \notin U
    BY <1>2, <2>2, <2>4
  <2>7. z.upstream = IF <<1, s, 4>> \in U THEN 0 ELSE s
    BY <1>2, <2>2, <2>4
  <2>8. z.up <=> <<1, s, 5>> \notin U
    BY <1>2, <2>2, <2>4
  <2>9. ProxyBuilt(z, s, U)
    BY <2>4, <2>5, <2>6, <2>7, <2>8 DEF ProxyBuilt
  <2> QED BY <2>9 DEF z, U
<1> QED BY <1>3, <1>4

(* A command brings its policy one command further.                         *)
LEMMA PolicyBuilds ==
  ASSUME NEW y \in Policy \cup {Absent}, NEW s \in Slot, NEW i \in ProxyIndex, NEW k \in 1..2, NEW T,
         PolicyBuilt(y, s, i, T), <<2, s, k>> \in T, k # 1 => <<2, s, 1>> \notin T, Opening(T)
  PROVE  PolicyBuilt(PolicyAfter(OrBlank(y, BlankPolicy), s, i, k), s, i, T \ {<<2, s, k>>})
<1> DEFINE z == PolicyAfter(OrBlank(y, BlankPolicy), s, i, k)
           U == T \ {<<2, s, k>>}
<1>1. s \in 0..Profiles
  BY RouterAssumption DEF Slot
<1>2. \A n : <<2, s, n>> \in U <=> <<2, s, n>> \in T /\ n # k
  OBVIOUS
<1>3. CASE k = 1
  <2>1. z = [BlankPolicy EXCEPT !.name = s]
    BY <1>3 DEF PolicyBuilt, PolicyAfter, OrBlank
  <2>2. z.name = s /\ z.permits = {} /\ z \in Policy
    BY <1>1, <2>1 DEF BlankPolicy, Policy
  <2>3. z # Absent
    BY <2>2, AbsentAssumption
  <2>4. <<2, s, 1>> \notin U /\ <<2, s, 2>> \in U
    <3>1. <<2, s, 2>> \in T
      BY <1>3 DEF Opening
    <3> HIDE DEF U
    <3> QED BY <1>2, <1>3, <3>1
  <2> HIDE DEF z, U
  <2>5. PolicyBuilt(z, s, i, U)
    BY <2>2, <2>3, <2>4 DEF PolicyBuilt
  <2> QED BY <2>5 DEF z, U
<1>4. CASE k = 2
  <2>1. y # Absent /\ y.name = s /\ y.permits = {} /\ y \in Policy
    BY <1>4 DEF PolicyBuilt
  <2>2. z = [y EXCEPT !.permits = @ \cup {i}]
    BY <1>4, <2>1 DEF PolicyAfter, OrBlank
  <2>3. z.name = s /\ z.permits = {i} /\ z \in Policy
    BY <2>1, <2>2 DEF Policy
  <2>4. z # Absent
    BY <2>3, AbsentAssumption
  <2>5. <<2, s, 1>> \notin U /\ <<2, s, 2>> \notin U
    BY <1>2, <1>4
  <2> HIDE DEF z, U
  <2>6. PolicyBuilt(z, s, i, U)
    BY <2>3, <2>4, <2>5 DEF PolicyBuilt
  <2> QED BY <2>6 DEF z, U
<1> QED BY <1>3, <1>4

(* Each command does its part and nothing to the objects of other slots.   *)
LEMMA BuiltSends ==
  ASSUME NEW old \in Config, NEW m, NEW pl \in Plans(old, m), NEW cfg \in Config,
         NEW T \in SUBSET Work(pl), NEW t \in T, \A u \in T \ {t} : Earlier(t, u),
         Built(cfg, pl, T)
  PROVE  Built(Effect(cfg, pl, t), pl, T \ {t})
<1> DEFINE k == t[3]
           s == t[2]
           new == Effect(cfg, pl, t)
           U == T \ {t}
<1>1. /\ pl \in Plan
      /\ pl.assignment \in {"assign", "move"} => SelectedDevice \in Device
  BY PlansSound
<1>2. /\ pl.newproxy \subseteq Slot /\ pl.newpolicy \subseteq Slot
      /\ \A a \in pl.newproxy, b \in pl.newproxy : pl.proxy[a] = pl.proxy[b] => a = b
      /\ \A a \in pl.newpolicy, b \in pl.newpolicy : pl.policy[a] = pl.policy[b] => a = b
  BY NewApart
<1>3. /\ s \in Slot /\ k \in 1..5 /\ t = <<t[1], s, k>> /\ t[1] \in {1, 2, 3}
      /\ t[1] = 1 => s \in pl.newproxy
      /\ t[1] = 2 => s \in pl.newpolicy /\ k \in 1..2
      /\ t[1] = 3 => pl.assignment \in {"assign", "move"} /\ s = SelectedSlot /\ k = 1
  <2>1. t \in Step
    BY DEF Work
  <2> QED BY <2>1, StepShape DEF Work
<1>4. k # 1 => <<t[1], s, 1>> \notin T
  <2>1. t[1] \in Int /\ s \in Int /\ k \in Int
    BY <1>3, RouterAssumption DEF Slot
  <2> DEFINE a == <<t[1], s, 1>>
  <2>2. a[1] = t[1] /\ a[2] = s /\ a[3] = 1
    OBVIOUS
  <2>3. ~Earlier(t, a)
    BY <1>3, <2>1, <2>2 DEF Earlier
  <2>4. k # 1 => t # a
    BY <2>2
  <2> QED BY <2>3, <2>4
<1>5. Opening(T)
  BY DEF Built
<1>6. Opening(U)
  <2> SUFFICES ASSUME NEW r \in Slot
               PROVE  /\ <<1, r, 1>> \in U => <<1, r, 3>> \in U /\ <<1, r, 4>> \in U /\ <<1, r, 5>> \in U
                      /\ <<2, r, 1>> \in U => <<2, r, 2>> \in U
    BY DEF Opening
  <2>1. /\ <<1, r, 1>> \in T => <<1, r, 3>> \in T /\ <<1, r, 4>> \in T /\ <<1, r, 5>> \in T
        /\ <<2, r, 1>> \in T => <<2, r, 2>> \in T
    BY <1>5 DEF Opening
  <2>2. <<1, r, 1>> \in T => t # <<1, r, 3>> /\ t # <<1, r, 4>> /\ t # <<1, r, 5>>
    BY <1>4
  <2>3. <<2, r, 1>> \in T => t # <<2, r, 2>>
    BY <1>4
  <2> QED BY <2>1, <2>2, <2>3
<1>7. /\ \A r \in pl.newproxy : ProxyBuilt(cfg.proxies[pl.proxy[r]], r, T)
      /\ \A r \in pl.newpolicy : PolicyBuilt(cfg.policies[pl.policy[r]], r, pl.proxy[r], T)
      /\ pl.assignment \in {"assign", "move"} /\ <<3, SelectedSlot, 1>> \notin T =>
           cfg.assigned[SelectedDevice] = pl.policy[SelectedSlot]
  BY DEF Built
<1>8. /\ \A p, r, n : <<p, r, n>> \in U <=> <<p, r, n>> \in T /\ ~(p = t[1] /\ r = s /\ n = k)
  BY <1>3
<1>9. ASSUME NEW r \in pl.newproxy, ~(t[1] = 1 /\ r = s),
             new.proxies[pl.proxy[r]] = cfg.proxies[pl.proxy[r]]
      PROVE  ProxyBuilt(new.proxies[pl.proxy[r]], r, U)
  <2> HIDE DEF new, U
  <2>1. \A n : <<1, r, n>> \in U <=> <<1, r, n>> \in T
    BY <1>8, <1>9
  <2>2. ProxyBuilt(cfg.proxies[pl.proxy[r]], r, T)
    BY <1>7
  <2> QED BY <1>9, <2>1, <2>2 DEF ProxyBuilt
<1>10. ASSUME NEW r \in pl.newpolicy, ~(t[1] = 2 /\ r = s),
              new.policies[pl.policy[r]] = cfg.policies[pl.policy[r]]
       PROVE  PolicyBuilt(new.policies[pl.policy[r]], r, pl.proxy[r], U)
  <2> HIDE DEF new, U
  <2>1. \A n : <<2, r, n>> \in U <=> <<2, r, n>> \in T
    BY <1>8, <1>10
  <2>2. PolicyBuilt(cfg.policies[pl.policy[r]], r, pl.proxy[r], T)
    BY <1>7
  <2> QED BY <1>10, <2>1, <2>2 DEF PolicyBuilt
<1>11. CASE t[1] = 1
  <2> DEFINE i == pl.proxy[s]
             x == cfg.proxies[i]
             z == ProxyAfter(OrBlank(x, BlankProxy), s, k)
  <2>1. new = WithProxy(cfg, i, z)
    BY <1>11 DEF Effect
  <2>2. s \in pl.newproxy /\ i \in ProxyIndex /\ t = <<1, s, k>>
    BY <1>1, <1>3, <1>11 DEF Plan
  <2>3. x \in Proxy \cup {Absent}
    BY <2>2 DEF Config
  <2>4. ProxyBuilt(x, s, T)
    BY <1>7, <2>2
  <2>5. ProxyBuilt(z, s, U)
    <3>1. s \in Slot /\ k \in 1..5 /\ <<1, s, k>> \in T /\ (k # 1 => <<1, s, 1>> \notin T)
          /\ U = T \ {<<1, s, k>>}
      BY <1>3, <1>4, <1>11, <2>2
    <3> HIDE DEF x, s, k, U
    <3> QED BY <1>5, <2>3, <2>4, <3>1, ProxyBuilds
  <2> HIDE DEF new, z, U
  <2>6. /\ new.proxies[i] = z
        /\ \A j \in ProxyIndex \ {i} : new.proxies[j] = cfg.proxies[j]
        /\ new.policies = cfg.policies /\ new.assigned = cfg.assigned
    BY <2>1, <2>2 DEF WithProxy, Config
  <2>7. \A r \in pl.newproxy : r = s \/ pl.proxy[r] \in ProxyIndex \ {i}
    BY <1>1, <1>2, <2>2 DEF Plan
  <2>8. \A r \in pl.newproxy : ProxyBuilt(new.proxies[pl.proxy[r]], r, U)
    BY <1>9, <2>5, <2>6, <2>7
  <2>9. \A r \in pl.newpolicy : PolicyBuilt(new.policies[pl.policy[r]], r, pl.proxy[r], U)
    BY <1>10, <1>11, <2>6
  <2>10. pl.assignment \in {"assign", "move"} /\ <<3, SelectedSlot, 1>> \notin U =>
           new.assigned[SelectedDevice] = pl.policy[SelectedSlot]
    BY <1>7, <1>8, <1>11, <2>6
  <2> QED BY <1>6, <2>8, <2>9, <2>10 DEF Built, new, U
<1>12. CASE t[1] = 2
  <2> DEFINE j == pl.policy[s]
             i == pl.proxy[s]
             y == cfg.policies[j]
             z == PolicyAfter(OrBlank(y, BlankPolicy), s, i, k)
  <2>1. new = WithPolicy(cfg, j, z)
    BY <1>12 DEF Effect
  <2>2. s \in pl.newpolicy /\ j \in PolicyIndex /\ i \in ProxyIndex /\ t = <<2, s, k>>
    BY <1>1, <1>3, <1>12 DEF Plan
  <2>3. y \in Policy \cup {Absent}
    BY <2>2 DEF Config
  <2>4. PolicyBuilt(y, s, i, T)
    BY <1>7, <2>2
  <2>5. PolicyBuilt(z, s, i, U)
    <3>1. s \in Slot /\ k \in 1..2 /\ <<2, s, k>> \in T /\ (k # 1 => <<2, s, 1>> \notin T)
          /\ U = T \ {<<2, s, k>>}
      BY <1>3, <1>4, <1>12, <2>2
    <3> HIDE DEF y, s, k, U, i
    <3> QED BY <1>5, <2>2, <2>3, <2>4, <3>1, PolicyBuilds
  <2> HIDE DEF new, z, U
  <2>6. /\ new.policies[j] = z
        /\ \A n \in PolicyIndex \ {j} : new.policies[n] = cfg.policies[n]
        /\ new.proxies = cfg.proxies /\ new.assigned = cfg.assigned
    BY <2>1, <2>2 DEF WithPolicy, Config
  <2>7. \A r \in pl.newpolicy : r = s \/ pl.policy[r] \in PolicyIndex \ {j}
    BY <1>1, <1>2, <2>2 DEF Plan
  <2>8. \A r \in pl.newpolicy : PolicyBuilt(new.policies[pl.policy[r]], r, pl.proxy[r], U)
    BY <1>10, <2>5, <2>6, <2>7
  <2>9. \A r \in pl.newproxy : ProxyBuilt(new.proxies[pl.proxy[r]], r, U)
    BY <1>9, <1>12, <2>6
  <2>10. pl.assignment \in {"assign", "move"} /\ <<3, SelectedSlot, 1>> \notin U =>
           new.assigned[SelectedDevice] = pl.policy[SelectedSlot]
    BY <1>7, <1>8, <1>12, <2>6
  <2> QED BY <1>6, <2>8, <2>9, <2>10 DEF Built, new, U
<1>13. CASE t[1] = 3
  <2>1. new = [cfg EXCEPT !.assigned[SelectedDevice] = pl.policy[SelectedSlot]]
    BY <1>13 DEF Effect
  <2>2. SelectedDevice \in Device
    BY <1>1, <1>3, <1>13
  <2> HIDE DEF new, U
  <2>3. /\ new.proxies = cfg.proxies /\ new.policies = cfg.policies
        /\ new.assigned[SelectedDevice] = pl.policy[SelectedSlot]
    BY <2>1, <2>2 DEF Config
  <2>4. /\ \A r \in pl.newproxy : ProxyBuilt(new.proxies[pl.proxy[r]], r, U)
        /\ \A r \in pl.newpolicy : PolicyBuilt(new.policies[pl.policy[r]], r, pl.proxy[r], U)
    BY <1>9, <1>10, <1>13, <2>3
  <2> QED BY <1>6, <2>3, <2>4 DEF Built, new, U
<1> QED BY <1>3, <1>11, <1>12, <1>13

(* Nothing lost so far: the step is a command that arrived, or one of the  *)
(* operator's own.                                                         *)
LEMMA ExactStep ==
  ASSUME Held, Held', Followed, Exact, [Next]_vars
  PROVE  Exact'
<1> SUFFICES ASSUME faults' = 0, pc' # "idle"
             PROVE  Exact'
  BY DEF Exact
<1>1. ~Fault
  BY FaultTyped DEF Held
<1>2. ~Damage /\ ~Restart /\ ~Administrator /\ ~GiveUp
  BY <1>1 DEF Damage, Restart, Administrator, GiveUp
<1>3. pc # "idle" => /\ packet \in Packet /\ Made /\ packet.plan \in Plan /\ packet.pre \in Config
                     /\ packet.plan \in Plans(packet.pre, TRUE)
  BY MadeFacts DEF Held, TypeOK, Made
<1>4. running \in Config
  BY DEF Held, TypeOK
<1>5. CASE MakePacket
  <2>1. PICK pl : pl \in Plans(running, TRUE) /\ packet' = PacketFor(running, pl)
    BY <1>5 DEF MakePacket
  <2>2. packet'.intact = TRUE
    BY <1>4, <2>1, PacketMade
  <2>3. pc' = "planned" /\ calm' = TRUE
    BY <1>5 DEF MakePacket
  <2> QED BY <2>2, <2>3 DEF Exact
<1>6. CASE VerifyPre
  <2>1. /\ pc = "pre" /\ pc' = "send" /\ todo' = Work(packet.plan)
        /\ UNCHANGED <<running, packet, calm, faults>>
    BY <1>6 DEF VerifyPre, router
  <2>2. packet.intact /\ calm
    BY <2>1 DEF Exact
  <2>3. Apart(Parsed(running), packet.pre, packet.plan, {})
    BY <2>1, <2>2 DEF Followed, Touched
  <2>4. Parsed(running) = packet.pre
    BY <1>3, <1>4, <2>1, <2>3, ParsedFields, NothingApart
  <2>5. Built(running, packet.plan, Work(packet.plan))
    BY <1>3, <1>4, <2>1, <2>4, BuiltStarts
  <2> QED BY <2>1, <2>2, <2>5 DEF Exact
<1>7. CASE Send
  <2>1. /\ pc = "send" /\ UNCHANGED <<startup, packet, snapshot, pc, calm>>
    BY <1>7 DEF Send
  <2>2. PICK t \in todo : /\ Current(t) /\ todo' = todo \ {t}
                          /\ running' = Effect(running, packet.plan, t) /\ UNCHANGED faults
    BY <1>1, <1>7 DEF Send
  <2>3. packet.intact /\ calm /\ Built(running, packet.plan, todo)
    BY <2>1, <2>2 DEF Exact
  <2>4. todo \in SUBSET Work(packet.plan) /\ \A u \in todo \ {t} : Earlier(t, u)
    BY <2>1, <2>2 DEF Held, Current
  <2>5. Built(Effect(running, packet.plan, t), packet.plan, todo \ {t})
    BY <1>3, <1>4, <2>1, <2>3, <2>4, BuiltSends
  <2>6. Built(running', packet'.plan, todo')
    BY <2>1, <2>2, <2>5
  <2> QED BY <2>1, <2>3, <2>6 DEF Exact
<1>8. CASE Sent
  <2>1. /\ pc = "send" /\ UNCHANGED <<running, packet, todo, calm, faults>>
    BY <1>8 DEF Sent, GoTo, router
  <2> QED BY <2>1 DEF Exact
<1>9. CASE \/ TakePre \/ TakeRunning \/ TakeSaved \/ TakeRestored \/ VerifyRunning \/ VerifySaved
           \/ Save \/ Undo \/ Undone \/ VerifyRestored
  <2>1. /\ pc # "idle" /\ UNCHANGED <<packet, calm>> /\ faults = 0
    BY <1>1, <1>9 DEF TakePre, TakeRunning, TakeSaved, TakeRestored, Snap, VerifyRunning,
      VerifySaved, Save, Undo, Undone, VerifyRestored, GoTo, TurnBack
  <2>2. pc' \notin {"send", "sent"}
    BY <1>9 DEF TakePre, TakeRunning, TakeSaved, TakeRestored, Snap, VerifyRunning,
      VerifySaved, Save, Undo, Undone, VerifyRestored, GoTo, TurnBack
  <2> QED BY <2>1, <2>2 DEF Exact
<1>10. CASE Stale \/ PutAway \/ Refused
  BY <1>10 DEF Stale, PutAway, Refused, vars, Exact
<1>11. CASE UNCHANGED vars
  BY <1>11 DEF vars, router, Exact
<1> QED BY <1>2, <1>5, <1>6, <1>7, <1>8, <1>9, <1>10, <1>11 DEF Next

-----------------------------------------------------------------------------
(* Theorems *)

(* TypeOK: what the operator, the tool, the router and the file may be in. *)
THEOREM ExternalInvariant == Spec => []ExtInv
<1>1. Init => ExtInv
  BY HeldInit DEF Init, ExtInv, Followed, Exact
<1>2. ExtInv /\ [Next]_vars => ExtInv'
  BY HeldStep, FollowedStep, ExactStep DEF ExtInv
<1> QED BY <1>1, <1>2, PTL DEF Spec

(* RollbackReaches: the reversals of a packet, in the order of             *)
(* _render_commands, bring the configuration it was made from back from    *)
(* wherever the transport stopped or lost a command.                       *)
THEOREM ReversalsReach == Spec => []RollbackReaches
<1>1. ExtInv => RollbackReaches
  <2> SUFFICES ASSUME ExtInv, pc = "undone", calm
               PROVE  Parsed(running) = packet.pre
    BY DEF RollbackReaches
  <2>1. Apart(Parsed(running), packet.pre, packet.plan, {})
    BY DEF ExtInv, Followed, Touched
  <2>2. running \in Config /\ packet.pre \in Config
    BY MadeFacts DEF ExtInv, Held, TypeOK
  <2> QED BY <2>1, <2>2, ParsedFields, NothingApart
<1> QED BY <1>1, ExternalInvariant, PTL

(* AcceptedSurvives: what verify_external_transaction accepts as saved is  *)
(* what runs, has the plan in force and leaves nothing to be done.         *)
THEOREM AcceptanceLasts == Spec => []AcceptedSurvives
<1>1. ExtInv => AcceptedSurvives
  <2> SUFFICES ASSUME ExtInv, pc = "accepted", calm
               PROVE  AcceptedSurvives
    BY DEF AcceptedSurvives
  <2>1. /\ Parsed(running) = packet.post /\ Parsed(startup) = packet.post
        /\ Applied(startup, packet.plan) /\ AllReused(startup, packet.plan)
    BY DEF ExtInv, Followed
  <2>2. \E pl \in Plans(startup, FALSE) : ~WriteRequired(pl)
    BY <2>1 DEF AllReused, WriteRequired
  <2> QED BY <2>1, <2>2 DEF AcceptedSurvives
<1> QED BY <1>1, ExternalInvariant, PTL

(* CommandsReach: the fingerprint _expected_post_state predicts is the one *)
(* the rendered commands produce, and verify_external_transaction accepts  *)
(* it, if every endpoint is enabled.                                       *)
THEOREM CommandsAreEnough ==
  ASSUME AllEnabled
  PROVE  Spec => []CommandsReach
<1>1. ExtInv => CommandsReach
  <2> SUFFICES ASSUME ExtInv, pc = "sent", calm, faults = 0
               PROVE  PostMatches(packet, running)
    BY DEF CommandsReach
  <2> DEFINE pl == packet.plan
             pre == packet.pre
  <2>1. /\ running \in Config /\ pre \in Config /\ pl \in Plan /\ pl \in Plans(pre, TRUE)
        /\ packet.post = Expected(pre, pl) /\ packet.guard = pre.guard /\ Parsed(pre) = pre
        /\ todo = {}
    BY MadeFacts DEF ExtInv, Held, TypeOK, Made
  <2>2. packet.intact /\ Built(running, pl, {})
    BY <2>1 DEF ExtInv, Exact
  <2>3. Apart(Parsed(running), pre, pl, Work(pl))
    BY DEF ExtInv, Followed, Touched
  <2> HIDE DEF pl, pre
  <2>4. AllFinished(running, pl)
    <3>1. \A s \in pl.newproxy : Finished(running.proxies[pl.proxy[s]], s)
      BY <2>2 DEF Built, ProxyBuilt, Finished
    <3>2. \A s \in pl.newpolicy :
            LET y == running.policies[pl.policy[s]]
            IN  y # Absent /\ y.name = s /\ y.permits = {pl.proxy[s]}
      BY <2>2 DEF Built, PolicyBuilt
    <3>3. pl.assignment \in {"assign", "move"} =>
            running.assigned[SelectedDevice] = pl.policy[SelectedSlot]
      BY <2>2 DEF Built
    <3> QED BY <3>1, <3>2, <3>3 DEF AllFinished
  <2>5. Parsed(running) = packet.post
    <3>1. running \in Config /\ pre \in Config /\ pl \in Plans(pre, TRUE) /\ Parsed(pre) = pre
      BY <2>1
    <3>2. Parsed(running) = Expected(pre, pl)
      BY <2>3, <2>4, <3>1, BuiltReaches
    <3> QED BY <2>1, <3>2
  <2>6. Applied(packet.post, pl) /\ AllReused(packet.post, pl)
    BY <2>1, ExpectedApplied
  <2>7. Applied(running, pl)
    BY <2>1, <2>5, <2>6, ParsedApplied
  <2>8. AllReused(running, pl)
    BY <2>1, <2>5, <2>6, ParsedPlans DEF AllReused
  <2>9. running.guard = packet.guard
    BY <2>1, <2>3, ParsedFields DEF Apart
  <2>10. ~WriteRequired(pl) => packet.post = pre
    BY <2>1, ExpectedSame
  <2>11. Genuine(packet)
    BY <2>2, <2>10 DEF Genuine, pl, pre
  <2> QED BY <2>5, <2>7, <2>8, <2>9, <2>11 DEF PostMatches, pl
<1> QED BY <1>1, ExternalInvariant, PTL
=============================================================================
