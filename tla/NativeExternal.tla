---------------------------- MODULE NativeExternal ----------------------------
(***************************************************************************)
(* The external native transaction (scripts/routerkit_netcraze_external.py)*)
(* : a packet of commands, of their reversal and of fingerprints is made   *)
(* from a snapshot; an operator carries the commands to the router by any  *)
(* transport, and snapshots are judged against the packet before, after    *)
(* and after saving.  The tool sees snapshots only.                        *)
(*                                                                         *)
(* A fingerprint is the configuration it is taken of, as far as the parser *)
(* sees it.                                                                *)
(***************************************************************************)
EXTENDS NdmRouter

CONSTANTS
  Initial,    \* configurations the router may start from
  NoPacket,   \* no transaction file
  MaxFaults   \* bound on lost commands, damaged packets, restarts and the edits of others

Parsed(cfg) ==
  [cfg EXCEPT !.proxies =
     [i \in ProxyIndex |-> IF @[i] = Absent THEN Absent ELSE [@[i] EXCEPT !.public = FALSE]]]

Packet == [plan : Plan, pre : Config, post : Config, guard : Guard, intact : BOOLEAN]

ASSUME ExternalAssumption ==
  /\ Initial \subseteq Config /\ NoPacket \notin Packet /\ MaxFaults \in Nat

VARIABLES
  running, startup,  \* the router's configurations
  packet,    \* the transaction file
  snapshot,  \* the operator's last snapshot
  pc,        \* where the operator is
  todo,      \* commands, or reversals, still to carry over
  calm,      \* nobody but the operator has changed the router since the packet was made
  faults

router == <<running, startup>>
vars == <<router, packet, snapshot, pc, todo, calm, faults>>

TypeOK ==
  /\ running \in Config /\ startup \in Config /\ snapshot \in Config
  /\ packet \in Packet \cup {NoPacket} /\ todo \subseteq Step
  /\ pc \in {"idle", "planned", "pre", "send", "sent", "running", "save", "saved", "startup",
             "accepted", "undo", "undone", "undo-pre", "restored"}
  /\ pc # "idle" => packet # NoPacket
  /\ calm \in BOOLEAN /\ faults \in 0..MaxFaults

Init ==
  /\ running \in Initial /\ startup = running /\ snapshot = running
  /\ packet = NoPacket /\ pc = "idle" /\ todo = {} /\ calm = TRUE /\ faults = 0

Fault == faults < MaxFaults /\ faults' = faults + 1

GoTo(label) == pc' = label /\ UNCHANGED <<packet, todo, calm>>

-----------------------------------------------------------------------------
(* The packet *)

NewProxyAt(pl, i) == CHOOSE s \in pl.newproxy : pl.proxy[s] = i
NewPolicyAt(pl, j) == CHOOSE s \in pl.newpolicy : pl.policy[s] = j

ExpectedObjects(cfg, pl) ==
  [Parsed(cfg) EXCEPT
     !.proxies = [i \in ProxyIndex |->
        IF \E s \in pl.newproxy : pl.proxy[s] = i
        THEN LET s == NewProxyAt(pl, i)
             IN  [name |-> s, public |-> FALSE, socks |-> TRUE, upstream |-> s,
                  up |-> Enabled[s], auth |-> FALSE]
        ELSE @[i]],
     !.policies = [j \in PolicyIndex |->
        IF \E s \in pl.newpolicy : pl.policy[s] = j
        THEN LET s == NewPolicyAt(pl, j) IN [name |-> s, permits |-> {pl.proxy[s]}]
        ELSE @[j]]]

(* _expected_post_state: the configuration the commands are to produce, as *)
(* the parser will see it.                                                 *)
Expected(cfg, pl) ==
  IF pl.assignment \in {"assign", "move"}
  THEN [ExpectedObjects(cfg, pl) EXCEPT !.assigned[SelectedDevice] = pl.policy[SelectedSlot]]
  ELSE ExpectedObjects(cfg, pl)

PacketFor(cfg, pl) ==
  [plan |-> pl, pre |-> Parsed(cfg), post |-> Expected(cfg, pl), guard |-> cfg.guard, intact |-> TRUE]

(* The packet agrees with itself and with the manifest of today.           *)
Genuine(p) == p.intact /\ (WriteRequired(p.plan) \/ p.post = p.pre)

(* The plan for the new configuration has nothing left to create, and the  *)
(* same objects in every place.                                            *)
AllReused(cfg, pl) ==
  \E q \in Plans(cfg, FALSE) :
    /\ q.proxy = pl.proxy /\ q.policy = pl.policy
    /\ q.newproxy = {} /\ q.newpolicy = {}
    /\ q.assignment \in {"none", "reuse"}

PreMatches(p, cfg) == Genuine(p) /\ cfg.guard = p.guard /\ Parsed(cfg) = p.pre

(* Mutant: either fingerprint will do.                                     *)
EitherMatches(p, cfg) == Genuine(p) /\ cfg.guard = p.guard /\ Parsed(cfg) \in {p.pre, p.post}

PostMatches(p, cfg) ==
  /\ Genuine(p) /\ cfg.guard = p.guard /\ Parsed(cfg) = p.post
  /\ Applied(cfg, p.plan) /\ AllReused(cfg, p.plan)

-----------------------------------------------------------------------------
(* The tool and the operator *)

(* The file is created, never replaced.                                    *)
MakePacket ==
  /\ pc = "idle" /\ packet = NoPacket
  /\ \E allow_move \in BOOLEAN, pl \in Plans(running, TRUE) :
       pl \in Plans(running, allow_move) /\ packet' = PacketFor(running, pl)
  /\ snapshot' = running /\ pc' = "planned" /\ calm' = TRUE
  /\ UNCHANGED <<router, todo, faults>>

(* No plan can be made: names or matches are ambiguous, or no id is free.  *)
Refused == pc = "idle" /\ Plans(running, TRUE) = {} /\ UNCHANGED vars

Snap(before, after, cfg) ==
  /\ pc = before /\ snapshot' = cfg /\ GoTo(after) /\ UNCHANGED <<router, faults>>

TakePre == Snap("planned", "pre", running)

TakeRunning == Snap("sent", "running", running)

TakeSaved == Snap("saved", "startup", startup)

TakeRestored == Snap("undone", "undo-pre", running)

(* The commands are authorized if any are needed.                          *)
VerifyPre ==
  /\ pc = "pre" /\ PreMatches(packet, snapshot)
  /\ pc' = "send" /\ todo' = Work(packet.plan)
  /\ UNCHANGED <<router, packet, snapshot, calm, faults>>

Stale ==
  /\ pc = "pre" /\ ~PreMatches(packet, snapshot)
  /\ pc' = "idle" /\ packet' = NoPacket
  /\ UNCHANGED <<router, snapshot, todo, calm, faults>>

Current(t) == t \in todo /\ \A u \in todo \ {t} : Earlier(t, u)

(* A command may be lost on the way; the transport's word is not taken.    *)
Send ==
  /\ pc = "send"
  /\ \E t \in todo :
       /\ Current(t) /\ todo' = todo \ {t}
       /\ \/ running' = Effect(running, packet.plan, t) /\ UNCHANGED faults
          \/ Fault /\ UNCHANGED running
  /\ UNCHANGED <<startup, packet, snapshot, pc, calm>>

Sent ==
  /\ pc = "send" /\ todo = {} /\ GoTo("sent")
  /\ UNCHANGED <<router, snapshot, faults>>

(* The operator, or the connection, gives up half way.                     *)
GiveUp ==
  /\ pc = "send" /\ Fault /\ pc' = "sent" /\ todo' = {}
  /\ UNCHANGED <<router, packet, snapshot, calm>>

(* The way back: the assignment, policies, proxies, each in reverse order. *)
Reversals(pl) == {t \in Work(pl) : Undoable(t)}

TurnBack ==
  /\ pc' = "undo" /\ todo' = Reversals(packet.plan)
  /\ UNCHANGED <<packet, calm>>

VerifyRunning ==
  /\ pc = "running"
  /\ IF PostMatches(packet, snapshot)
     THEN GoTo(IF WriteRequired(packet.plan) THEN "save" ELSE "saved") ELSE TurnBack
  /\ UNCHANGED <<router, snapshot, faults>>

Save ==
  /\ pc = "save"
  /\ \/ startup' = running /\ UNCHANGED faults
     \/ Fault /\ UNCHANGED startup
  /\ GoTo("saved")
  /\ UNCHANGED <<running, snapshot>>

VerifySaved ==
  /\ pc = "startup"
  /\ IF PostMatches(packet, snapshot) THEN GoTo("accepted") ELSE TurnBack
  /\ UNCHANGED <<router, snapshot, faults>>

LastOf(t) == t \in todo /\ \A u \in todo \ {t} : Earlier(u, t)

(* Mutant: a device that was moved is left without a policy.               *)
ForgetPrevious(cfg, t) ==
  IF t[1] = 3 THEN [cfg EXCEPT !.assigned[SelectedDevice] = Absent]
  ELSE Reversal(cfg, packet.plan, packet.pre, t)

Reversed(cfg, t) == Reversal(cfg, packet.plan, packet.pre, t)

Undo ==
  /\ pc = "undo"
  /\ \E t \in todo : LastOf(t) /\ running' = Reversed(running, t) /\ todo' = todo \ {t}
  /\ UNCHANGED <<startup, packet, snapshot, pc, calm, faults>>

(* The operator may save again.                                            *)
Undone ==
  /\ pc = "undo" /\ todo = {} /\ startup' \in {startup, running} /\ GoTo("undone")
  /\ UNCHANGED <<running, snapshot, faults>>

VerifyRestored ==
  /\ pc = "undo-pre" /\ PreMatches(packet, snapshot) /\ GoTo("restored")
  /\ UNCHANGED <<router, snapshot, faults>>

(* The file is put away.                                                   *)
PutAway ==
  /\ \/ pc \in {"accepted", "restored"}
     \/ pc = "undo-pre" /\ ~PreMatches(packet, snapshot)
  /\ pc' = "idle" /\ packet' = NoPacket
  /\ UNCHANGED <<router, snapshot, todo, calm, faults>>

-----------------------------------------------------------------------------
(* The surroundings *)

(* The file is edited, or the endpoints are generated again.               *)
Damage ==
  /\ packet # NoPacket /\ packet.intact /\ Fault /\ packet' = [packet EXCEPT !.intact = FALSE]
  /\ UNCHANGED <<router, snapshot, pc, todo, calm>>

Restart ==
  /\ running # startup /\ Fault /\ running' = startup /\ calm' = FALSE
  /\ UNCHANGED <<startup, packet, snapshot, pc, todo>>

ForeignProxy == [BlankProxy EXCEPT !.public = TRUE, !.up = TRUE]

Edited(cfg) ==
  {WithProxy(cfg, i, IF cfg.proxies[i] = Absent THEN ForeignProxy ELSE Absent) : i \in ProxyIndex}
  \cup {[cfg EXCEPT !.assigned[d] = j] : d \in Device, j \in PoliciesOf(cfg) \cup {Absent}}
  \cup {[cfg EXCEPT !.guard = g] : g \in Guard}

(* The Web UI, which saves what it changes.                                *)
Administrator ==
  /\ Fault /\ running' \in Edited(running) /\ startup' = running' /\ calm' = FALSE
  /\ UNCHANGED <<packet, snapshot, pc, todo>>

Next ==
  \/ MakePacket \/ Refused \/ TakePre \/ VerifyPre \/ Stale \/ Send \/ Sent \/ GiveUp
  \/ TakeRunning \/ VerifyRunning \/ Save \/ TakeSaved \/ VerifySaved
  \/ Undo \/ Undone \/ TakeRestored \/ VerifyRestored \/ PutAway
  \/ Damage \/ Restart \/ Administrator

Spec == Init /\ [][Next]_vars

-----------------------------------------------------------------------------
(* Properties *)

(* What the packet expects is what its commands do: carried over in full,  *)
(* with nobody else at the router, they are accepted.                      *)
CommandsReach ==
  pc = "sent" /\ calm /\ faults = 0 => PostMatches(packet, running)

(* Its reversal brings back the planned-for configuration, assignment      *)
(* included, from wherever the transport stopped or lost a command.        *)
RollbackReaches == pc = "undone" /\ calm => Parsed(running) = packet.pre

(* What is accepted as saved survives a restart of the router, as far as   *)
(* the tool reads a configuration, and leaves nothing to be done for a     *)
(* packet made from it.                                                    *)
AcceptedSurvives ==
  pc = "accepted" /\ calm =>
    /\ Parsed(running) = Parsed(startup) /\ Applied(startup, packet.plan)
    /\ \E pl \in Plans(startup, FALSE) : ~WriteRequired(pl)
=============================================================================
