---------------------------- MODULE RoutingApply ----------------------------
(***************************************************************************)
(* The local direct-routing overrides (scripts/routerkit_routing.py) and   *)
(* the installer of the Xray configuration that restores them              *)
(* (scripts/install-xray-direct.sh).  One command runs at a time; it may   *)
(* be killed between two steps, and each of its steps may fail.            *)
(*                                                                         *)
(* The active configuration is known by the profile set of each fragment,  *)
(* or that its file was cut short, whether 04_outbounds.json has its       *)
(* direct outbound, and the direct rule that comes first in                *)
(* 05_routing.json.  A rule names the inbounds of a profile set and a list *)
(* of domains.                                                             *)
(***************************************************************************)
EXTENDS ProfileFiles, Integers, FiniteSets, SequencesExt

CONSTANTS
  Service, Domain,         \* numbered in the order their names sort
  Requests,                \* what an operator may ask for
  Packs,                   \* versions of the repository's service packs
  MaxServices, MaxDomains, \* bounds of a state file and of an expanded rule
  Initial,                 \* configurations the router may start from
  Down,                    \* no Xray runs
  MaxFaults                \* bound on failing steps and kills

Overrides == [services : SUBSET Service, domains : SUBSET Domain]
Nothing == [services |-> {}, domains |-> {}]

(* The managed rule of some overrides, no direct rule first, or another.   *)
NoRule == [kind |-> "none"]
Foreign == [kind |-> "foreign"]
Rules == [kind : {"managed"}, tags : ProfileSet, list : Seq(Domain)] \cup {NoRule, Foreign}

Active == [inbounds : Content, outbounds : Content, direct : BOOLEAN,
           routing : Content, rule : Rules]

Readable(cfg) == Torn \notin {cfg.inbounds, cfg.outbounds, cfg.routing}

ASSUME RoutingAssumption ==
  /\ Service \subseteq Nat /\ Domain \subseteq Nat
  /\ IsFiniteSet(Service) /\ IsFiniteSet(Domain)
  /\ Requests \subseteq [addS : SUBSET Service, delS : SUBSET Service,
                           addD : SUBSET Domain, delD : SUBSET Domain]
  /\ Packs \subseteq [Service -> Seq(Domain) \ {<<>>}]
  /\ MaxServices \in Nat /\ MaxDomains \in Nat /\ MaxFaults \in Nat
  /\ \A a \in Initial :
       /\ a.config \in Active /\ a.live \in Active \cup {Down}
       /\ a.state \in Entries(Overrides) \cup {Missing}
       /\ a.init \in {"absent", "off", "on"} /\ a.pack \in Packs
  /\ Down \notin Active
  /\ Missing \notin Entries(Overrides)

VARIABLES
  config,  \* the active configuration directory
  state,   \* the entry of routing-overrides.json
  pack,    \* the service packs of the checked-out repository
  live,    \* the configuration the running Xray was started with, or Down
  init,    \* S23xray-direct: "absent", "off" (not executable) or "on"
  pc,      \* the next step of the running command
  job,     \* what it works on
  exit,    \* how the last command ended
  sound,   \* since the last good installation: no kill or failure among the copies, no
           \* kill over a published rule, none left by a rollback that is unproven,
           \* nothing published unsynchronized, no torn fragment copied, no pack updated
  faults

routing == <<config, state, pack, live, init, pc, job, exit, sound, faults>>
vars == <<routing, profileFiles>>

(* What a command knows: the overrides it wants, the rule it publishes,    *)
(* what it found when it began, which of its two files it has put in place *)
(* in a directory that could not be synchronized, whether it is the        *)
(* installer, and the set of the manifest beside the fragments it copies.  *)
Job == [desired : Overrides, rule : Rules, remember : BOOLEAN,
        was : Active, kept : Entries(Overrides) \cup {Missing}, ran : Active \cup {Down},
        unsynced : {"nothing", "route", "state"},
        installs : BOOLEAN, set : ProfileSet \cup {None}]

Applying == {"backup", "stage", "publish", "test", "restart", "verify", "remember"}
Undoing == {"undo", "undo-test", "undo-restart", "undo-verify"}
Reconciling == {"reconcile", "rec-stage", "rec-publish", "rec-test"}
Copying == {"copy-03", "copy-04", "copy-05"}
Installing == Copying \cup {"copy-init", "install-test"}
Ends == {"none", "ok", "applied", "installed", "refused", "failed", "incomplete",
         "unproven", "killed"}

TypeOK ==
  /\ ProfilesType
  /\ config \in Active /\ live \in Active \cup {Down}
  /\ state \in Entries(Overrides) \cup {Missing}
  /\ pack \in Packs /\ init \in {"absent", "off", "on"}
  /\ pc \in Applying \cup Undoing \cup Reconciling \cup Installing \cup {"idle"}
  /\ job \in Job /\ exit \in Ends /\ sound \in BOOLEAN /\ faults \in 0..MaxFaults

-----------------------------------------------------------------------------
(* The rule of a set of overrides *)

Listed(S) == SetToSortSeq(S, <)

Distinct(s) == FoldLeft(LAMBDA seen, d : IF Contains(seen, d) THEN seen ELSE Append(seen, d),
                        <<>>, s)

Expansion(packs, o) ==
  LET services == Listed(o.services)
  IN Distinct(FlattenSeq([i \in DOMAIN services |-> packs[services[i]]]) \o Listed(o.domains))

Expand(o) == Expansion(pack, o)

Fits(o) ==
  /\ Cardinality(o.services) <= MaxServices /\ Cardinality(o.domains) <= MaxDomains
  /\ Len(Expand(o)) <= MaxDomains

RuleOf(tags, list) ==
  IF list = <<>> THEN NoRule ELSE [kind |-> "managed", tags |-> tags, list |-> list]

(* Without a state file a first rule that is exactly one known pack is     *)
(* taken for that service.                                                 *)
Inferred(packs, cfg) == {s \in Service : cfg.rule = RuleOf(cfg.inbounds, packs[s])}

CurrentOf(packs, cfg, entry) ==
  LET known == Inferred(packs, cfg)
  IN IF entry # Missing THEN entry.text
     ELSE IF known # {}
          THEN [services |-> {CHOOSE s \in known : \A t \in known : s <= t}, domains |-> {}]
          ELSE Nothing

Current == CurrentOf(pack, config, state)

(* Mutant: the first direct rule is taken for the managed one.             *)
RecognizeAny(list) ==
  /\ Readable(config) /\ config.direct
  /\ state = Missing \/ Private(state)

(* The documents can be read, and a first direct rule is the managed one.  *)
Recognized(list) ==
  /\ Readable(config) /\ config.direct
  /\ state = Missing \/ Private(state)
  /\ config.rule \in {NoRule, RuleOf(config.inbounds, list)}

PlanAccepted(desired) ==
  /\ Recognized(Expand(Current))
  /\ Len(Expand(Current)) <= MaxDomains
  /\ Fits(desired)

NewJob(desired, rule, remember) ==
  [desired |-> desired, rule |-> rule, remember |-> remember, was |-> config, kept |-> state,
   ran |-> live, unsynced |-> "nothing", installs |-> FALSE, set |-> None]

Init ==
  /\ ProfilesInit
  /\ \E a \in Initial : config = a.config /\ state = a.state /\ live = a.live /\ init = a.init
                       /\ pack = a.pack
  /\ pc = "idle" /\ exit = "none" /\ faults = 0
  /\ sound = (/\ Readable(config)
              /\ config.rule \in {NoRule, RuleOf(config.inbounds, Expand(Current))})
  /\ job = NewJob(Nothing, NoRule, FALSE)

-----------------------------------------------------------------------------
(* apply *)

quiet == <<pack, init, profileFiles>>

Fault == faults < MaxFaults /\ faults' = faults + 1

GoTo(label) == pc' = label /\ UNCHANGED <<job, exit, sound>>
End(status) == pc' = "idle" /\ exit' = status /\ UNCHANGED <<job, sound>>

(* A failure the code does not undo: what the files say may now disagree.  *)
Spoil(status) == pc' = "idle" /\ exit' = status /\ sound' = FALSE /\ UNCHANGED job

Files == <<config, state>>

Mutated(o, req) ==
  [services |-> (o.services \cup req.addS) \ req.delS,
   domains |-> (o.domains \cup req.addD) \ req.delD]

Apply(req) ==
  LET desired == Mutated(Current, req)
      rule == RuleOf(config.inbounds, Expand(desired))
      remember == state = Missing \/ state.text # desired
      same == config.rule = rule
  IN /\ pc = "idle" /\ PlanAccepted(desired)
     /\ job' = NewJob(desired, rule, remember)
     /\ pc' = IF ~same THEN "backup" ELSE IF remember THEN "remember" ELSE "idle"
     /\ exit' = IF same /\ ~remember THEN "ok" ELSE "none"
     /\ UNCHANGED <<Files, live, sound, faults, quiet>>

ApplyRefused(req) ==
  /\ pc = "idle" /\ ~PlanAccepted(Mutated(Current, req))
  /\ exit' = "refused"
  /\ UNCHANGED <<Files, live, pc, job, sound, faults, quiet>>

Backup ==
  /\ pc = "backup" /\ GoTo("stage")
  /\ UNCHANGED <<Files, live, faults, quiet>>

Stage ==
  /\ pc = "stage" /\ GoTo("publish")
  /\ UNCHANGED <<Files, live, faults, quiet>>

NotPublished ==
  /\ pc \in {"backup", "stage", "publish"} /\ Fault /\ End("failed")
  /\ UNCHANGED <<Files, live, quiet>>

Publish ==
  /\ pc = "publish" /\ config' = [config EXCEPT !.rule = job.rule]
  /\ GoTo("test")
  /\ UNCHANGED <<state, live, faults, quiet>>

(* The new file is in place but its directory is not synchronized: the     *)
(* error leaves published FALSE and nothing is undone.                     *)
PublishUnsynced ==
  /\ pc = "publish" /\ Fault
  /\ config' = [config EXCEPT !.rule = job.rule]
  /\ job' = [job EXCEPT !.unsynced = "route"]
  /\ pc' = "idle" /\ exit' = "failed" /\ sound' = FALSE
  /\ UNCHANGED <<state, live, quiet>>

Test ==
  /\ pc = "test" /\ GoTo("restart")
  /\ UNCHANGED <<Files, live, faults, quiet>>

(* Mutant: Xray keeps running the old configuration.                       *)
SkipRestart ==
  /\ pc = "restart" /\ init # "absent"
  /\ GoTo("verify")
  /\ UNCHANGED <<Files, live, faults, quiet>>

Restart ==
  /\ pc = "restart" /\ init # "absent"
  /\ live' = config
  /\ GoTo("verify")
  /\ UNCHANGED <<Files, faults, quiet>>

(* Mutant: the overrides are not remembered.                               *)
ForgetState ==
  /\ pc = "verify" /\ init = "on" /\ live # Down /\ End("applied")
  /\ UNCHANGED <<Files, live, faults, quiet>>

(* "routerkit-autostart --verify" wants the init script enabled and Xray   *)
(* running; then every SOCKS port is probed.                               *)
Verify ==
  /\ pc = "verify" /\ init = "on" /\ live # Down
  /\ IF job.remember THEN GoTo("remember") ELSE End("applied")
  /\ UNCHANGED <<Files, live, faults, quiet>>

Remember ==
  /\ pc = "remember"
  /\ [entry |-> Fresh(job.desired), result |-> "ok"] \in Publications(state, job.desired, Overrides)
  /\ state' = Fresh(job.desired)
  /\ End(IF job.rule = job.was.rule THEN "ok" ELSE "applied")
  /\ UNCHANGED <<config, live, faults, quiet>>

(* Before anything is published a failure ends the command; after, it      *)
(* leads to the rollback.  A state-only write has nothing to undo.         *)
Undo == IF job.rule = job.was.rule THEN End("failed") ELSE GoTo("undo")

TestFails ==
  /\ pc = "test" /\ Fault /\ GoTo("undo")
  /\ UNCHANGED <<Files, live, quiet>>

RestartFails ==
  /\ pc = "restart"
  /\ live' \in {live, Down, config} /\ (init = "absent" => live' = live)
  /\ IF init = "absent" THEN UNCHANGED faults ELSE Fault
  /\ GoTo("undo")
  /\ UNCHANGED <<Files, quiet>>

VerifyFails ==
  /\ pc = "verify"
  /\ IF init # "on" \/ live = Down THEN UNCHANGED faults ELSE Fault
  /\ GoTo("undo")
  /\ UNCHANGED <<Files, live, quiet>>

RememberFails ==
  /\ pc = "remember" /\ Fault /\ Undo
  /\ UNCHANGED <<Files, live, quiet>>

(* The state file is in place but its directory is not synchronized: the   *)
(* route is rolled back under a state file that already says the opposite. *)
RememberUnsynced ==
  /\ pc = "remember" /\ Fault
  /\ state' = Fresh(job.desired) /\ sound' = FALSE
  /\ job' = [job EXCEPT !.unsynced = "state"]
  /\ IF job.rule = job.was.rule THEN pc' = "idle" /\ exit' = "failed"
                                ELSE pc' = "undo" /\ UNCHANGED exit
  /\ UNCHANGED <<config, live, quiet>>

-----------------------------------------------------------------------------
(* The rollback of apply *)

(* Mutant: Xray is restarted without the fragment of the backup.           *)
UndoNothing ==
  /\ pc = "undo" /\ GoTo("undo-test")
  /\ UNCHANGED <<Files, live, faults, quiet>>

UndoPublish ==
  /\ pc = "undo" /\ config' = job.was
  /\ GoTo("undo-test")
  /\ UNCHANGED <<state, live, faults, quiet>>

UndoTest ==
  /\ pc = "undo-test" /\ GoTo("undo-restart")
  /\ UNCHANGED <<Files, live, faults, quiet>>

UndoRestart ==
  /\ pc = "undo-restart" /\ init # "absent"
  /\ live' = config
  /\ GoTo("undo-verify")
  /\ UNCHANGED <<Files, faults, quiet>>

(* Verified again: the first error is raised again.                        *)
UndoVerify ==
  /\ pc = "undo-verify" /\ init = "on" /\ live # Down
  /\ End("failed")
  /\ UNCHANGED <<Files, live, faults, quiet>>

UndoFails ==
  /\ pc \in Undoing
  /\ IF \/ pc = "undo-restart" /\ init = "absent"
        \/ pc = "undo-verify" /\ (init # "on" \/ live = Down)
     THEN UNCHANGED faults ELSE Fault
  /\ config' \in IF pc = "undo" THEN {config, job.was} ELSE {config}
  /\ live' \in IF pc = "undo-restart" /\ init # "absent" THEN {live, Down, config} ELSE {live}
  /\ IF config'.rule = job.was.rule THEN End("unproven") ELSE Spoil("unproven")
  /\ UNCHANGED <<state, quiet>>

-----------------------------------------------------------------------------
(* reconcile, alone or within the installer *)

Reconcile ==
  /\ pc = "idle"
  /\ job' = NewJob(Nothing, NoRule, FALSE)
  /\ pc' = "reconcile" /\ exit' = "none"
  /\ UNCHANGED <<Files, live, sound, faults, quiet>>

Reconciled ==
  IF job.installs THEN pc' = "copy-init" /\ UNCHANGED exit
                  ELSE pc' = "idle" /\ exit' = "ok"

(* Without a state file, or with overrides that expand to nothing, there   *)
(* is nothing to do.                                                       *)
ReconcileNoop ==
  /\ pc = "reconcile"
  /\ state # Missing => Recognized(<<>>) /\ Expand(state.text) = <<>>
  /\ Reconciled
  /\ UNCHANGED <<Files, live, job, sound, faults, quiet>>

(* The configuration is taken for freshly installed: a direct rule that is *)
(* there already is refused, the managed one too.                          *)
Restorable == Recognized(<<>>) /\ Len(Expand(state.text)) <= MaxDomains

ReconcileRule ==
  /\ pc = "reconcile" /\ state # Missing /\ Restorable /\ Expand(state.text) # <<>>
  /\ job' = [job EXCEPT !.rule = RuleOf(config.inbounds, Expand(state.text))]
  /\ pc' = "rec-stage"
  /\ UNCHANGED <<Files, live, exit, sound, faults, quiet>>

ReconcileRefused ==
  /\ pc = "reconcile" /\ state # Missing /\ ~Restorable
  /\ End("refused")
  /\ UNCHANGED <<Files, live, faults, quiet>>

ReconcileStage ==
  /\ pc = "rec-stage" /\ GoTo("rec-publish")
  /\ UNCHANGED <<Files, live, faults, quiet>>

ReconcilePublish ==
  /\ pc = "rec-publish" /\ config' = [config EXCEPT !.rule = job.rule]
  /\ GoTo("rec-test")
  /\ UNCHANGED <<state, live, faults, quiet>>

ReconcileTest ==
  /\ pc = "rec-test" /\ Reconciled
  /\ UNCHANGED <<Files, live, job, sound, faults, quiet>>

(* Nothing is undone: the rule of the state file may be in place already.  *)
ReconcileFails ==
  /\ pc \in {"rec-stage", "rec-publish", "rec-test"} /\ Fault
  /\ config' = config \/ (pc = "rec-publish" /\ config' = [config EXCEPT !.rule = job.rule])
  /\ End("incomplete")
  /\ UNCHANGED <<state, live, quiet>>

-----------------------------------------------------------------------------
(* install-xray-direct.sh: that the fragments are files is all it checks   *)

Install ==
  /\ pc = "idle" /\ building = None
  /\ \A f \in Fragment : fragments[f] # Missing
  /\ job' = [NewJob(Nothing, NoRule, FALSE) EXCEPT
               !.installs = TRUE, !.set = IF manifest = Missing THEN None ELSE manifest.text]
  /\ pc' = "copy-03" /\ exit' = "none"
  /\ UNCHANGED <<Files, live, sound, faults, quiet>>

(* A torn fragment replaces the one that worked.                           *)
Copied(f, next) ==
  pc' = next /\ sound' = (sound /\ fragments[f] # Torn) /\ UNCHANGED <<job, exit>>

CopyInbounds ==
  /\ pc = "copy-03" /\ config' = [config EXCEPT !.inbounds = fragments["03_inbounds"]]
  /\ Copied("03_inbounds", "copy-04")
  /\ UNCHANGED <<state, live, faults, quiet>>

CopyOutbounds ==
  /\ pc = "copy-04"
  /\ config' = [config EXCEPT !.outbounds = fragments["04_outbounds"], !.direct = TRUE]
  /\ Copied("04_outbounds", "copy-05")
  /\ UNCHANGED <<state, live, faults, quiet>>

(* Mutant: the overrides are not restored after the copy.                  *)
CopyOnly ==
  /\ pc = "copy-05"
  /\ config' = [config EXCEPT !.routing = fragments["05_routing"], !.rule = NoRule]
  /\ Copied("05_routing", "copy-init")
  /\ UNCHANGED <<state, live, faults, quiet>>

(* A generated routing fragment has no direct rule.                        *)
CopyRouting ==
  /\ pc = "copy-05"
  /\ config' = [config EXCEPT !.routing = fragments["05_routing"], !.rule = NoRule]
  /\ Copied("05_routing", "reconcile")
  /\ UNCHANGED <<state, live, faults, quiet>>

(* The init script is copied without its executable bits.                  *)
CopyInit ==
  /\ pc = "copy-init" /\ init' = "off"
  /\ GoTo("install-test")
  /\ UNCHANGED <<Files, live, faults, pack, profileFiles>>

Installed ==
  /\ pc = "install-test" /\ Readable(config)
  /\ pc' = "idle" /\ exit' = "installed" /\ sound' = TRUE
  /\ UNCHANGED <<Files, live, job, faults, quiet>>

(* A copy that fails or is killed may leave its destination torn.          *)
CopyCut ==
  CASE pc = "copy-03" -> {config, [config EXCEPT !.inbounds = Torn]}
    [] pc = "copy-04" -> {config, [config EXCEPT !.outbounds = Torn]}
    [] pc = "copy-05" -> {config, [config EXCEPT !.routing = Torn, !.rule = NoRule]}
    [] OTHER -> {config}

(* A copy fails, or Xray refuses the result, as it does whatever cannot be *)
(* read: "set -e" ends the script, and nothing is put back.                *)
InstallFails ==
  /\ pc \in Installing
  /\ IF pc = "install-test" /\ ~Readable(config) THEN UNCHANGED faults ELSE Fault
  /\ config' \in CopyCut
  /\ IF pc \in Copying THEN Spoil("incomplete") ELSE End("incomplete")
  /\ UNCHANGED <<state, live, quiet>>

-----------------------------------------------------------------------------
(* What happens around a command *)

Between == pc \in Copying \/ (pc \in Applying \cup Undoing /\ config.rule # job.was.rule)

Kill ==
  /\ pc # "idle" /\ Fault
  /\ config' \in CopyCut
  /\ IF Between THEN Spoil("killed") ELSE End("killed")
  /\ UNCHANGED <<state, live, quiet>>

(* The router restarts: an enabled init script starts Xray, if it can read *)
(* its configuration.                                                      *)
Reboot ==
  /\ pc = "idle"
  /\ live' = IF init = "on" /\ Readable(config) THEN config ELSE Down
  /\ exit' = "none"
  /\ UNCHANGED <<Files, quiet, pc, job, sound, faults>>

(* Another transaction enables the init script.                            *)
EnableInit ==
  /\ pc = "idle" /\ init = "off" /\ Readable(config) /\ init' = "on" /\ live' = config
  /\ exit' = "none"
  /\ UNCHANGED <<Files, pack, profileFiles, pc, job, sound, faults>>

(* The repository is updated: a service pack changes under the rule.       *)
UpdatePacks ==
  /\ pc = "idle" /\ pack' \in Packs /\ pack' # pack
  /\ sound' = FALSE /\ exit' = "none"
  /\ UNCHANGED <<Files, live, init, pc, job, faults, profileFiles>>

Mutations == \E req \in Requests : Apply(req) \/ ApplyRefused(req)

ApplySteps ==
  \/ Backup \/ Stage \/ NotPublished \/ Publish \/ PublishUnsynced \/ Test \/ TestFails
  \/ Restart \/ RestartFails \/ Verify \/ VerifyFails
  \/ Remember \/ RememberFails \/ RememberUnsynced
  \/ UndoPublish \/ UndoTest \/ UndoRestart \/ UndoVerify \/ UndoFails

InstallSteps ==
  \/ Reconcile \/ ReconcileNoop \/ ReconcileRule \/ ReconcileRefused \/ ReconcileStage
  \/ ReconcilePublish \/ ReconcileTest \/ ReconcileFails
  \/ Install \/ CopyInbounds \/ CopyOutbounds \/ CopyRouting \/ CopyInit \/ Installed
  \/ InstallFails

Generating == pc = "idle" /\ Generator /\ UNCHANGED routing

Next ==
  \/ Mutations \/ ApplySteps \/ InstallSteps
  \/ Generating \/ Kill \/ Reboot \/ EnableInit \/ UpdatePacks

Spec == Init /\ [][Next]_vars

-----------------------------------------------------------------------------
(* Properties *)

(* What a finished command leaves behind, a later one recognizes: the      *)
(* fragments can be read, and the first direct rule is the one the state   *)
(* file stands for, so that no plan is refused because of what the code    *)
(* itself wrote.  Except, until an installation ends well, after any of    *)
(* what sound names: the installer was killed or failed while it copied,   *)
(* or copied a fragment the generator had left torn; an apply was killed   *)
(* over its published rule, its rollback is unproven with the rule still   *)
(* there, or one of its files was put in place unsynchronized; or a        *)
(* service pack was updated.                                               *)
Manageable ==
  pc = "idle" /\ sound =>
    /\ Readable(config)
    /\ config.rule \in {NoRule, RuleOf(config.inbounds, Expand(Current))}

(* An apply that ends with an error, and whose rollback it does not call   *)
(* unproven, leaves the configuration and the state file as it found them, *)
(* and Xray with what it ran before or with what the restored files say.   *)
(* There are two exceptions, one file each: a routing fragment published   *)
(* in a directory that cannot be synchronized stays, with Xray not         *)
(* restarted and nothing undone; so does such a state file, under a        *)
(* configuration that is rolled back.                                      *)
AllOrNothing ==
  exit = "failed" =>
    /\ config = IF job.unsynced = "route" THEN [job.was EXCEPT !.rule = job.rule] ELSE job.was
    /\ state = IF job.unsynced = "state" THEN Fresh(job.desired) ELSE job.kept
    /\ live \in IF job.unsynced = "route" THEN {job.ran} ELSE {job.ran, job.was}

(* An apply that ends well runs what it has published, and the state file  *)
(* asks for it.                                                            *)
AppliedInForce ==
  exit = "applied" =>
    /\ live = config /\ state = Fresh(job.desired)
    /\ config.rule = RuleOf(config.inbounds, Expand(job.desired))

(* An installation that ends well has copied one profile set whole, if the *)
(* generator's manifest was there, and has kept the overrides of the state *)
(* file.                                                                   *)
InstalledWhole ==
  exit = "installed" =>
    /\ job.set # None => \A s \in {config.inbounds, config.outbounds, config.routing} : s = job.set
    /\ state # Missing => config.rule = RuleOf(config.inbounds, Expand(state.text))

(* A direct rule that is not the managed one stays where it is: only the   *)
(* installer, which writes the whole fragment, replaces it.                *)
ForeignKept ==
  [][config.rule = Foreign /\ config'.rule # Foreign => pc = "copy-05"]_vars
=============================================================================
