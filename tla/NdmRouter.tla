----------------------------- MODULE NdmRouter -----------------------------
(***************************************************************************)
(* The native configuration of the router as the live NDM adapter reads it *)
(* (scripts/routerkit_netcraze_live.py: parse_running_config), the plan it *)
(* makes of it (routerkit_netcraze_live_compat.py: build_live_plan, the    *)
(* planner the command line injects), the NDM commands it sends and the    *)
(* verification of the result.                                             *)
(*                                                                         *)
(* Abstracted: a proxy's upstream and the description RouterKit gives to   *)
(* an object are the profile slot they belong to (ports and names are      *)
(* distinct for distinct slots), 0 stands for every other upstream and     *)
(* every other description.                                                *)
(***************************************************************************)
EXTENDS Integers, FiniteSets

CONSTANTS
  Profiles,       \* number of profiles in the endpoint manifest
  Enabled,        \* the "enabled" field of each of them
  MaxProxy,       \* MAX_PROXY_INDEX
  MaxPolicy,      \* MAX_POLICY_INDEX
  Device,         \* client devices, by MAC
  SelectedDevice, \* --device-mac, or NoDevice
  SelectedSlot,   \* --profile-slot
  NoDevice,       \* no --device-mac
  Guard,          \* contents of the lines that mention the default policy
  Absent          \* no object with this id; no policy assigned

Slot        == 1..Profiles
ProxyIndex  == 0..MaxProxy
PolicyIndex == 0..MaxPolicy

ASSUME RouterAssumption ==
  /\ Profiles \in 1..3
  /\ Enabled \in [Slot -> BOOLEAN]
  /\ MaxProxy \in Nat /\ MaxPolicy \in Nat
  /\ SelectedDevice \in Device \cup {NoDevice}
  /\ NoDevice \notin Device
  /\ SelectedSlot \in Slot
  /\ Absent \notin PolicyIndex

-----------------------------------------------------------------------------
(* Configurations *)

Proxy ==
  [name : 0..Profiles, public : BOOLEAN, socks : BOOLEAN, upstream : 0..Profiles,
   up : BOOLEAN, auth : BOOLEAN]

Policy == [name : 0..Profiles, permits : SUBSET ProxyIndex]

ASSUME AbsentAssumption == Absent \notin Proxy /\ Absent \notin Policy

Config ==
  [proxies : [ProxyIndex -> Proxy \cup {Absent}],
   policies : [PolicyIndex -> Policy \cup {Absent}],
   assigned : [Device -> PolicyIndex \cup {Absent}],
   guard : Guard]

BlankProxy  == [name |-> 0, public |-> FALSE, socks |-> FALSE, upstream |-> 0,
                up |-> FALSE, auth |-> FALSE]
BlankPolicy == [name |-> 0, permits |-> {}]

ProxiesOf(cfg)  == {i \in ProxyIndex : cfg.proxies[i] # Absent}
PoliciesOf(cfg) == {j \in PolicyIndex : cfg.policies[j] # Absent}

-----------------------------------------------------------------------------
(* Planning: exact semantics decide, whatever an object is called *)

ProxyServes(x, s) == x.socks /\ x.upstream = s /\ x.up = Enabled[s] /\ ~x.auth

PolicyServes(y, i) == y.permits = {i}

ServingProxies(cfg, s) == {i \in ProxiesOf(cfg) : ProxyServes(cfg.proxies[i], s)}

ServingPolicies(cfg, i) == {j \in PoliciesOf(cfg) : PolicyServes(cfg.policies[j], i)}

NamedProxies(cfg, s)  == {i \in ProxiesOf(cfg) : cfg.proxies[i].name = s}
NamedPolicies(cfg, s) == {j \in PoliciesOf(cfg) : cfg.policies[j].name = s}

AtMostOne(S) == \A a \in S, b \in S : a = b

(* Mutant: the lowest id, occupied or not.                                 *)
LowestOfAll(f, new, used) ==
  \A s \in new : f[s] = Cardinality({t \in new : t < s})

(* f gives the slots of new, in order, the lowest ids that are not in use. *)
LowestFree(f, new, used) ==
  \A s \in new :
    /\ f[s] \notin used
    /\ \A t \in new : t < s => f[t] # f[s]
    /\ \A i \in 0..(f[s] - 1) : i \in used \/ \E t \in new : t < s /\ f[t] = i

(* The proxies chosen for the slots, unless names or matches are ambiguous *)
(* or conflicting.                                                         *)
ProxyChoice(cfg, f, new) ==
  /\ \A s \in Slot :
       /\ AtMostOne(NamedProxies(cfg, s))
       /\ \A i \in NamedProxies(cfg, s) : ProxyServes(cfg.proxies[i], s)
       /\ s \notin new => ServingProxies(cfg, s) = {f[s]}
  /\ LowestFree(f, new, ProxiesOf(cfg))

PolicyChoice(cfg, f, g, new) ==
  /\ \A s \in Slot :
       /\ AtMostOne(NamedPolicies(cfg, s))
       /\ \A j \in NamedPolicies(cfg, s) : PolicyServes(cfg.policies[j], f[s])
       /\ s \notin new => ServingPolicies(cfg, f[s]) = {g[s]}
  /\ LowestFree(g, new, PoliciesOf(cfg))

(* Mutant: a device is assigned again although it has the policy.          *)
AssignmentRepeated(cfg, g) ==
  IF SelectedDevice = NoDevice                       THEN "none"
  ELSE IF cfg.assigned[SelectedDevice] = Absent      THEN "assign"
  ELSE "move"

AssignmentAction(cfg, g) ==
  IF SelectedDevice = NoDevice                             THEN "none"
  ELSE IF cfg.assigned[SelectedDevice] = g[SelectedSlot]   THEN "reuse"
  ELSE IF cfg.assigned[SelectedDevice] = Absent            THEN "assign"
  ELSE "move"

Plan ==
  [proxy : [Slot -> ProxyIndex], newproxy : SUBSET Slot,
   policy : [Slot -> PolicyIndex], newpolicy : SUBSET Slot,
   assignment : {"none", "reuse", "assign", "move"}]

(* build_live_plan: the plan for a configuration, none if it is refused.   *)
Plans(cfg, allow_move) ==
  LET newproxy     == {s \in Slot : ServingProxies(cfg, s) = {}}
      newpolicy(f) == {s \in Slot : ServingPolicies(cfg, f[s]) = {}}
      chosen == {c \in [proxy : [Slot -> ProxyIndex], policy : [Slot -> PolicyIndex]] :
                   /\ ProxyChoice(cfg, c.proxy, newproxy)
                   /\ PolicyChoice(cfg, c.proxy, c.policy, newpolicy(c.proxy))
                   /\ AssignmentAction(cfg, c.policy) = "move" => allow_move}
  IN  {[proxy |-> c.proxy, newproxy |-> newproxy,
        policy |-> c.policy, newpolicy |-> newpolicy(c.proxy),
        assignment |-> AssignmentAction(cfg, c.policy)] : c \in chosen}

WriteRequired(pl) ==
  pl.newproxy # {} \/ pl.newpolicy # {} \/ pl.assignment \in {"assign", "move"}

-----------------------------------------------------------------------------
(* Commands.  A step is <<part, slot, k>>: command k of creating the proxy *)
(* (part 1) or the policy (part 2) of a slot, or the assignment (part 3).  *)

ProxyCommands  == 5  \* description, security-level, protocol, upstream, up
PolicyCommands == 2  \* description, permit global

Step ==
  ({1} \X Slot \X (1..ProxyCommands)) \cup ({2} \X Slot \X (1..PolicyCommands))
    \cup {<<3, SelectedSlot, 1>>}

Earlier(a, b) ==
  \/ a[1] < b[1]
  \/ a[1] = b[1] /\ (a[2] < b[2] \/ (a[2] = b[2] /\ a[3] < b[3]))

Work(pl) ==
  {t \in Step :
     \/ t[1] = 1 /\ t[2] \in pl.newproxy
     \/ t[1] = 2 /\ t[2] \in pl.newpolicy
     \/ t[1] = 3 /\ pl.assignment \in {"assign", "move"}}

(* Mutant: the way back is noted only after the second command.            *)
UndoneBySecond(t) == t[3] = 2

(* The first command of an object puts its removal on the rollback list.   *)
Undoable(t) == t[3] = 1

WithProxy(cfg, i, x)  == [cfg EXCEPT !.proxies[i] = x]
WithPolicy(cfg, j, y) == [cfg EXCEPT !.policies[j] = y]

(* proxy_create_commands and policy_create_commands, by their effect on    *)
(* the object they name.                                                   *)
ProxyAfter(x, s, k) ==
  [x EXCEPT !.name     = IF k = 1 THEN s ELSE @,
            !.public   = @ \/ k = 2,
            !.socks    = @ \/ k = 3,
            !.upstream = IF k = 4 THEN s ELSE @,
            !.up       = @ \/ k = 5]

PolicyAfter(y, s, i, k) ==
  IF k = 1 THEN [y EXCEPT !.name = s] ELSE [y EXCEPT !.permits = @ \cup {i}]

OrBlank(x, blank) == IF x = Absent THEN blank ELSE x

(* What NDM does on a command: an object named in it exists afterwards.    *)
Effect(cfg, pl, t) ==
  LET s == t[2]
      i == pl.proxy[s]
      j == pl.policy[s]
  IN CASE t[1] = 1 -> WithProxy(cfg, i, ProxyAfter(OrBlank(cfg.proxies[i], BlankProxy), s, t[3]))
       [] t[1] = 2 -> WithPolicy(cfg, j, PolicyAfter(OrBlank(cfg.policies[j], BlankPolicy), s, i, t[3]))
       [] OTHER    -> [cfg EXCEPT !.assigned[SelectedDevice] = pl.policy[SelectedSlot]]

(* The rollback command of a step; old is the configuration read first.    *)
Reversal(cfg, pl, old, t) ==
  CASE t[1] = 1 -> WithProxy(cfg, pl.proxy[t[2]], Absent)
    [] t[1] = 2 -> WithPolicy(cfg, pl.policy[t[2]], Absent)
    [] OTHER    -> [cfg EXCEPT !.assigned[SelectedDevice] = old.assigned[SelectedDevice]]

(* _verify_plan_applied, as the compatibility layer replaces it.           *)
Applied(cfg, pl) ==
  /\ \A s \in Slot :
       LET x == cfg.proxies[pl.proxy[s]]
           y == cfg.policies[pl.policy[s]]
       IN  /\ x # Absent /\ ProxyServes(x, s)
           /\ s \in pl.newproxy => x.name = s
           /\ y # Absent /\ PolicyServes(y, pl.proxy[s])
           /\ s \in pl.newpolicy => y.name = s
  /\ SelectedDevice # NoDevice =>
       cfg.assigned[SelectedDevice] = pl.policy[SelectedSlot]
=============================================================================
