------------------------- MODULE RoutingApplyProofs -------------------------
(***************************************************************************)
(* What RoutingApply guarantees for every set of services, domains, packs, *)
(* requests and profile sets, and for every number of faults and of runs   *)
(* of the generator.  A rule's list of domains is left opaque: what the    *)
(* proofs use of Expansion is that it depends on the packs and on the      *)
(* overrides alone.                                                        *)
(***************************************************************************)
EXTENDS RoutingApply, WellFoundedInduction, TLAPS

-----------------------------------------------------------------------------
(* The inductive invariant *)

(* The configuration is made of its five parts, the state file holds some  *)
(* overrides, and an exit is told only between commands.                   *)
Shaped(cfg) ==
  cfg = [inbounds |-> cfg.inbounds, outbounds |-> cfg.outbounds, direct |-> cfg.direct,
         routing |-> cfg.routing, rule |-> cfg.rule]

Labels == Applying \cup Undoing \cup Reconciling \cup Installing \cup {"idle"}

Noted(j) ==
  /\ j = [desired |-> j.desired, rule |-> j.rule, remember |-> j.remember, was |-> j.was,
          kept |-> j.kept, ran |-> j.ran, unsynced |-> j.unsynced, installs |-> j.installs,
          set |-> j.set]
  /\ j.desired \in Overrides /\ j.remember \in BOOLEAN /\ j.installs \in BOOLEAN

Shapes ==
  /\ Shaped(config)
  /\ state \in Entries(Overrides) \cup {Missing}
  /\ init \in {"absent", "off", "on"}
  /\ Noted(job) /\ sound \in BOOLEAN
  /\ pc \in Labels
  /\ pc # "idle" => exit = "none"

(* The generator's files: no manifest while a run is under way, and the    *)
(* fragments before its next step are those of the run.                    *)
GeneratorInv ==
  /\ step \in 0..4
  /\ fragments \in [Fragment -> Content \cup {Missing}]
  /\ building = None \/ building \in ProfileSet
  /\ manifest # Missing => manifest.text # None
  /\ building # None =>
       /\ manifest = Missing
       /\ \A f \in Fragment : Position[f] < step => fragments[f] = building
  /\ ManifestWhole

(* The first direct rule is the managed one, as a plan recognizes it.      *)
Managed(packs, cfg, entry) ==
  cfg.rule \in {NoRule, RuleOf(cfg.inbounds, Expansion(packs, CurrentOf(packs, cfg, entry)))}

(* Unless something has spoilt it, the configuration can be read.          *)
Legible == sound => Readable(config)

(* The rule is the one the state file asks for.                            *)
Asked == state # Missing => config.rule = RuleOf(config.inbounds, Expand(state.text))

(* An apply, before its new fragment is published, and while Xray is being *)
(* brought to it.                                                          *)
Ahead == {"backup", "stage", "publish"}
Behind == {"test", "restart", "verify"}

(* What an apply and its rollback remember.                                *)
JobInv ==
  pc \in Applying \cup Undoing =>
    /\ Shaped(job.was) /\ Readable(job.was) /\ Managed(pack, job.was, job.kept)
    /\ job.rule = RuleOf(job.was.inbounds, Expand(job.desired))
    /\ job.kept # Missing => Private(job.kept)
    /\ job.remember = (job.kept = Missing \/ job.kept.text # job.desired)
    /\ job.unsynced \in {"nothing", "state"}
    /\ state = IF job.unsynced = "state" THEN Fresh(job.desired) ELSE job.kept
    /\ sound => job.unsynced = "nothing"

(* Where the configuration, the state file and Xray are at each step.      *)
ApplyInv ==
  /\ pc \in Applying => job.unsynced = "nothing"
  /\ pc \in Ahead \cup Behind \cup Undoing => job.rule # job.was.rule
  /\ pc \in Ahead => config = job.was /\ live = job.ran
  /\ pc \in Behind \cup {"undo", "remember"} => config = [job.was EXCEPT !.rule = job.rule]
  /\ pc \in {"verify", "remember"} /\ job.rule # job.was.rule => live = config
  /\ pc = "remember" /\ job.rule = job.was.rule => live = job.ran
  /\ pc = "remember" => job.remember
  /\ pc \in Undoing \ {"undo"} => config = job.was
  /\ pc = "undo-verify" => live = config

(* An installation copies one set whole, if there was a manifest.          *)
CopyInv ==
  /\ pc \in Installing => job.installs
  /\ pc \in Reconciling \cup Installing /\ job.installs /\ job.set # None =>
       /\ \A f \in Fragment : fragments[f] = job.set
       /\ pc # "copy-03" => config.inbounds = job.set
       /\ pc \notin {"copy-03", "copy-04"} => config.outbounds = job.set
       /\ pc \notin Copying => config.routing = job.set

(* A reconciliation puts back the rule the state file asks for.            *)
ReconcileInv ==
  /\ pc = "reconcile" /\ job.installs => config.rule = NoRule
  /\ pc = "reconcile" /\ sound => Managed(pack, config, state)
  /\ pc \in {"rec-stage", "rec-publish"} => config.rule = NoRule
  /\ pc \in {"rec-stage", "rec-publish", "rec-test"} =>
       /\ state # Missing
       /\ job.rule = RuleOf(config.inbounds, Expand(state.text))
  /\ pc = "rec-test" => config.rule = job.rule
  /\ pc \in {"copy-init", "install-test"} => Managed(pack, config, state) /\ Asked

(* The part of Manageable that is about the rule.                          *)
Recognizable == pc = "idle" /\ sound => Managed(pack, config, state)

(* What a command leaves when it has ended.                                *)
EndInv == Recognizable /\ AllOrNothing /\ AppliedInForce /\ InstalledWhole

Progress == JobInv /\ ApplyInv /\ CopyInv /\ ReconcileInv /\ EndInv

IInv == Shapes /\ GeneratorInv /\ Legible /\ Progress

-----------------------------------------------------------------------------
(* Rules and overrides *)

(* An empty list is no rule, and the managed rule is never a foreign one.  *)
LEMMA RuleFacts ==
  /\ \A tags : RuleOf(tags, <<>>) = NoRule
  /\ \A tags, list : RuleOf(tags, list) # Foreign
  /\ NoRule # Foreign
BY DEF RuleOf, NoRule, Foreign

(* An entry that is there is a file, and its text is what is asked for.    *)
LEMMA EntryFacts ==
  ASSUME NEW e \in Entries(Overrides)
  PROVE  e # Missing /\ e.text \in Overrides /\ e = [text |-> e.text, private |-> e.private]
BY RoutingAssumption DEF Entries

(* What is published is such an entry.                                     *)
LEMMA FreshFacts ==
  ASSUME NEW o \in Overrides
  PROVE  Fresh(o) \in Entries(Overrides) /\ Fresh(o) # Missing /\ Fresh(o).text = o
<1>1. Missing \notin Entries(Overrides)
  BY RoutingAssumption
<1>2. Fresh(o) \in Entries(Overrides) /\ Fresh(o).text = o
  BY DEF Entries, Fresh
<1>3. QED
  BY <1>1, <1>2

(* A set of numbers that is not empty has a least one.                     *)
LEMMA LeastNumber ==
  ASSUME NEW S \in SUBSET Nat, S # {}
  PROVE  \E s \in S : \A t \in S : s <= t
<1> DEFINE R == {p \in Nat \X Nat : p[1] < p[2]}
<1>1. IsWellFoundedOn(R, Nat)
  BY NatLessThanWellFounded DEF OpToRel
<1> HIDE DEF R
<1>2. PICK s \in S : \A t \in S : <<t, s>> \notin R
  BY <1>1, WFMin
<1>3. ASSUME NEW t \in S
      PROVE  s <= t
  <2>1. s \in Nat /\ t \in Nat
    OBVIOUS
  <2>2. ~(t < s)
    BY <1>2, <2>1 DEF R
  <2>3. QED
    BY <2>1, <2>2
<1>4. QED
  BY <1>3

(* The current overrides are overrides: the text of the state file, or the *)
(* first of the services whose pack is the rule, or nothing.               *)
LEMMA CurrentType ==
  ASSUME NEW packs, NEW cfg, NEW entry \in Entries(Overrides) \cup {Missing}
  PROVE  CurrentOf(packs, cfg, entry) \in Overrides
<1> DEFINE known == Inferred(packs, cfg)
<1>1. known \subseteq Service /\ Service \subseteq Nat
  BY RoutingAssumption DEF Inferred
<1>2. CASE entry # Missing
  BY <1>2, EntryFacts DEF CurrentOf
<1>3. CASE entry = Missing /\ known # {}
  <2>1. \E s \in known : \A t \in known : s <= t
    BY <1>1, <1>3, LeastNumber
  <2>2. (CHOOSE s \in known : \A t \in known : s <= t) \in Service
    BY <1>1, <2>1
  <2>3. CurrentOf(packs, cfg, entry)
          = [services |-> {CHOOSE s \in known : \A t \in known : s <= t}, domains |-> {}]
    BY <1>3 DEF CurrentOf
  <2>4. QED
    BY <2>2, <2>3 DEF Overrides
<1>4. CASE entry = Missing /\ known = {}
  BY <1>4 DEF CurrentOf, Overrides, Nothing
<1>5. QED
  BY <1>2, <1>3, <1>4

(* With a state file the current overrides are its text.                   *)
LEMMA CurrentIsText ==
  ASSUME NEW packs, NEW cfg, NEW entry, entry # Missing
  PROVE  CurrentOf(packs, cfg, entry) = entry.text
BY DEF CurrentOf

(* The overrides an operator asks for.                                     *)
LEMMA MutatedType ==
  ASSUME NEW o \in Overrides, NEW req \in Requests
  PROVE  Mutated(o, req) \in Overrides
<1>1. /\ o.services \subseteq Service /\ o.domains \subseteq Domain
      /\ req.addS \subseteq Service /\ req.addD \subseteq Domain
  BY RoutingAssumption DEF Overrides
<1>2. QED
  BY <1>1 DEF Mutated, Overrides

(* A configuration with another rule is made of the same other parts.      *)
LEMMA OtherRule ==
  ASSUME NEW cfg, Shaped(cfg), NEW rule
  PROVE  /\ Shaped([cfg EXCEPT !.rule = rule])
         /\ [cfg EXCEPT !.rule = rule].rule = rule
         /\ [cfg EXCEPT !.rule = rule].inbounds = cfg.inbounds
         /\ [cfg EXCEPT !.rule = rule].outbounds = cfg.outbounds
         /\ [cfg EXCEPT !.rule = rule].routing = cfg.routing
         /\ rule = cfg.rule => [cfg EXCEPT !.rule = rule] = cfg
         /\ Readable([cfg EXCEPT !.rule = rule]) <=> Readable(cfg)
<1>1. [cfg EXCEPT !.rule = rule]
        = [inbounds |-> cfg.inbounds, outbounds |-> cfg.outbounds, direct |-> cfg.direct,
           routing |-> cfg.routing, rule |-> rule]
  BY DEF Shaped
<1>2. QED
  BY <1>1 DEF Shaped, Readable

(* What a new command notes.                                               *)
LEMMA NewJobFacts ==
  ASSUME NEW d \in Overrides, NEW rule, NEW remember \in BOOLEAN
  PROVE  /\ Noted(NewJob(d, rule, remember))
         /\ NewJob(d, rule, remember).desired = d /\ NewJob(d, rule, remember).rule = rule
         /\ NewJob(d, rule, remember).remember = remember /\ NewJob(d, rule, remember).was = config
         /\ NewJob(d, rule, remember).kept = state /\ NewJob(d, rule, remember).ran = live
         /\ NewJob(d, rule, remember).unsynced = "nothing"
         /\ NewJob(d, rule, remember).installs = FALSE /\ NewJob(d, rule, remember).set = None
<1> DEFINE j == NewJob(d, rule, remember)
<1>1. j = [desired |-> d, rule |-> rule, remember |-> remember, was |-> config, kept |-> state,
           ran |-> live, unsynced |-> "nothing", installs |-> FALSE, set |-> None]
  BY DEF NewJob
<1> HIDE DEF j
<1>2. /\ j.desired = d /\ j.rule = rule /\ j.remember = remember
      /\ j.was = config /\ j.kept = state /\ j.ran = live /\ j.unsynced = "nothing"
      /\ j.installs = FALSE /\ j.set = None
  BY <1>1
<1>3. j = [desired |-> j.desired, rule |-> j.rule, remember |-> j.remember, was |-> j.was,
           kept |-> j.kept, ran |-> j.ran, unsynced |-> j.unsynced, installs |-> j.installs,
           set |-> j.set]
  BY <1>1, <1>2
<1>4. Noted(j)
  BY <1>2, <1>3 DEF Noted
<1>5. QED
  BY <1>2, <1>4 DEF j

(* The overrides a command without any notes.                              *)
LEMMA NothingType == Nothing \in Overrides
BY DEF Nothing, Overrides

(* What a reconciliation and an installer note later.                      *)
LEMMA RuleNoted ==
  ASSUME NEW j, Noted(j), NEW rule
  PROVE  /\ Noted([j EXCEPT !.rule = rule])
         /\ [j EXCEPT !.rule = rule].rule = rule
         /\ [j EXCEPT !.rule = rule].set = j.set
         /\ [j EXCEPT !.rule = rule].installs = j.installs
<1>1. [j EXCEPT !.rule = rule]
        = [desired |-> j.desired, rule |-> rule, remember |-> j.remember, was |-> j.was,
           kept |-> j.kept, ran |-> j.ran, unsynced |-> j.unsynced, installs |-> j.installs,
           set |-> j.set]
  BY DEF Noted
<1>2. QED
  BY <1>1 DEF Noted

(* A file left unsynchronized is all that changes in the job.              *)
LEMMA UnsyncedNoted ==
  ASSUME NEW j, Noted(j), NEW u
  PROVE  /\ Noted([j EXCEPT !.unsynced = u])
         /\ [j EXCEPT !.unsynced = u].unsynced = u
         /\ [j EXCEPT !.unsynced = u].desired = j.desired
         /\ [j EXCEPT !.unsynced = u].rule = j.rule
         /\ [j EXCEPT !.unsynced = u].remember = j.remember
         /\ [j EXCEPT !.unsynced = u].was = j.was
         /\ [j EXCEPT !.unsynced = u].kept = j.kept
         /\ [j EXCEPT !.unsynced = u].ran = j.ran
<1>1. [j EXCEPT !.unsynced = u]
        = [desired |-> j.desired, rule |-> j.rule, remember |-> j.remember, was |-> j.was,
           kept |-> j.kept, ran |-> j.ran, unsynced |-> u, installs |-> j.installs,
           set |-> j.set]
  BY DEF Noted
<1>2. QED
  BY <1>1 DEF Noted

(* Opening an installation records its set and nothing else of the job.     *)
LEMMA InstallNoted ==
  ASSUME NEW j, Noted(j), NEW set
  PROVE  /\ Noted([j EXCEPT !.installs = TRUE, !.set = set])
         /\ [j EXCEPT !.installs = TRUE, !.set = set].installs = TRUE
         /\ [j EXCEPT !.installs = TRUE, !.set = set].set = set
<1> DEFINE k == [j EXCEPT !.installs = TRUE, !.set = set]
<1>1. /\ k \in [desired : {j.desired}, rule : {j.rule}, remember : {j.remember}, was : {j.was},
                kept : {j.kept}, ran : {j.ran}, unsynced : {j.unsynced}, installs : BOOLEAN,
                set : {set}]
      /\ k.installs = TRUE
  BY DEF Noted
<1> HIDE DEF k
<1>2. Noted(k) /\ k.set = set
  BY <1>1 DEF Noted
<1>3. QED
  BY <1>1, <1>2 DEF k

-----------------------------------------------------------------------------
(* The initial states *)

(* Every initial configuration is one the generator or a finished job       *)
(* left.                                                                    *)
LEMMA InitInv == Init => IInv
<1> SUFFICES ASSUME Init
             PROVE  IInv
  OBVIOUS
<1>1. PICK a \in Initial : config = a.config /\ state = a.state /\ init = a.init
  BY DEF Init
<1>2. /\ a.config \in Active /\ a.state \in Entries(Overrides) \cup {Missing}
      /\ a.init \in {"absent", "off", "on"}
  BY RoutingAssumption
<1>3. pc = "idle" /\ exit = "none" /\ job = NewJob(Nothing, NoRule, FALSE)
  BY DEF Init
<1>4. /\ sound = (/\ Readable(config)
                  /\ config.rule \in {NoRule, RuleOf(config.inbounds, Expand(Current))})
      /\ sound \in BOOLEAN
  BY DEF Init
<1>5. Shaped(config)
  BY <1>1, <1>2 DEF Active, Shaped
<1>6. Noted(job)
  BY <1>3, NewJobFacts, NothingType
<1>7. Shapes
  BY <1>1, <1>2, <1>3, <1>4, <1>5, <1>6 DEF Shapes, Labels
<1>8. GeneratorInv
  <2>1. PICK b \in Built : /\ fragments = [f \in Fragment |-> b]
                           /\ manifest = IF b = Missing THEN Missing ELSE Fresh(b)
    BY DEF Init, ProfilesInit
  <2>2. building = None /\ step = 0 /\ b \in Content \cup {Missing} /\ None \notin ProfileSet
        /\ b # Torn
    BY ProfilesAssumption DEF Init, ProfilesInit, Content
  <2>3. b # Missing => manifest.text = b
    BY <2>1 DEF Fresh
  <2>4. fragments \in [Fragment -> Content \cup {Missing}] /\ \A f \in Fragment : fragments[f] = b
    BY <2>1, <2>2
  <2>5. manifest # Missing => b # Missing /\ manifest.text = b
    BY <2>1, <2>3
  <2>6. ManifestWhole
    BY <2>4, <2>5 DEF ManifestWhole
  <2>7. QED
    BY <2>2, <2>4, <2>5, <2>6 DEF GeneratorInv, Content
<1>9. JobInv /\ ApplyInv /\ CopyInv /\ ReconcileInv
  BY <1>3 DEF JobInv, ApplyInv, CopyInv, ReconcileInv, Applying, Undoing, Ahead, Behind,
              Reconciling, Copying, Installing
<1>10. EndInv
  BY <1>3, <1>4 DEF EndInv, Recognizable, Managed, Current, Expand, AllOrNothing, AppliedInForce,
                    InstalledWhole
<1>11. QED
  BY <1>4, <1>7, <1>8, <1>9, <1>10 DEF IInv, Progress, Legible

-----------------------------------------------------------------------------
(* The generator's files *)

(* A step of the generator keeps its files in order.  A manifest is retired *)
(* before the first fragment is written, and published after the last.     *)
LEMMA GeneratorStep ==
  ASSUME GeneratorInv, Generator
  PROVE  GeneratorInv'
<1> USE DEF GeneratorInv, ManifestWhole, Content
<1>1. ASSUME NEW g \in ProfileSet, Generate(g)
      PROVE  GeneratorInv'
  BY <1>1 DEF Generate, Begins, Fragment, Position
<1>2. CASE RetireUnsynced
  BY <1>2 DEF RetireUnsynced, Begins
<1>3. ASSUME NEW f \in Fragment, WriteFragment(f)
      PROVE  GeneratorInv'
  <2>1. /\ building # None /\ step = Position[f] /\ step' = step + 1
        /\ fragments' = [fragments EXCEPT ![f] = building]
        /\ UNCHANGED <<manifest, building>>
    BY <1>3 DEF WriteFragment
  <2>2. \A h \in Fragment : Position[h] \in 1..3 /\ (Position[h] = Position[f] => h = f)
    BY DEF Fragment, Position
  <2>3. \A h \in Fragment : Position[h] < step' => fragments'[h] = building'
    BY <2>1, <2>2
  <2>4. QED
    BY <2>1, <2>2, <2>3
<1>4. ASSUME NEW f \in Fragment, WriteFails(f)
      PROVE  GeneratorInv'
  <2>1. /\ building # None /\ building' = None /\ step' = 0 /\ manifest' = manifest
        /\ fragments' = [fragments EXCEPT ![f] = Torn]
    BY <1>4 DEF WriteFails, Stop
  <2>2. QED
    BY <2>1
<1>5. CASE GenerationEnds
  BY <1>5 DEF GenerationEnds, Stop
<1>6. CASE PublishManifest
  <2>1. /\ building # None /\ step = 4 /\ manifest = Missing /\ fragments' = fragments
        /\ building' = None /\ step' = 0
    BY <1>6 DEF PublishManifest, Stop
  <2>2. PICK p \in Publications(manifest, building, ProfileSet) : manifest' = p.entry
    BY <1>6 DEF PublishManifest
  <2>3. p.entry \in {manifest, Fresh(building)}
    BY <2>2 DEF Publications
  <2>4. \A f \in Fragment : fragments[f] = building
    BY <2>1 DEF Fragment, Position
  <2>5. building \in ProfileSet /\ None \notin ProfileSet /\ Fresh(building).text = building
    BY <2>1, ProfilesAssumption DEF Fresh
  <2>6. QED
    BY <2>1, <2>2, <2>3, <2>4, <2>5
<1>7. QED
  BY <1>1, <1>2, <1>3, <1>4, <1>5, <1>6 DEF Generator

(* No other step touches them.                                             *)
LEMMA GeneratorAlone ==
  ASSUME GeneratorInv, [Next]_vars
  PROVE  GeneratorInv'
<1>1. CASE UNCHANGED profileFiles
  BY <1>1 DEF GeneratorInv, ManifestWhole, profileFiles
<1>2. CASE Generating
  BY <1>2, GeneratorStep DEF Generating
<1>3. CASE Mutations
  BY <1>1, <1>3 DEF Mutations, Apply, ApplyRefused, quiet
<1>4. CASE ApplySteps
  BY <1>1, <1>4 DEF ApplySteps, quiet, Backup, Stage, NotPublished, Publish, PublishUnsynced,
    Test, TestFails, Restart, RestartFails, Verify, VerifyFails, Remember, RememberFails,
    RememberUnsynced, UndoPublish, UndoTest, UndoRestart, UndoVerify, UndoFails
<1>5. CASE InstallSteps
  BY <1>1, <1>5 DEF InstallSteps, quiet, Reconcile, ReconcileNoop, ReconcileRule,
    ReconcileRefused, ReconcileStage, ReconcilePublish, ReconcileTest, ReconcileFails, Install,
    CopyInbounds, CopyOutbounds, CopyRouting, CopyInit, Installed, InstallFails
<1>6. CASE Kill \/ Reboot \/ EnableInit \/ UpdatePacks
  BY <1>1, <1>6 DEF Kill, Reboot, EnableInit, UpdatePacks, quiet
<1>7. CASE UNCHANGED vars
  BY <1>1, <1>7 DEF vars
<1>8. QED
  BY <1>2, <1>3, <1>4, <1>5, <1>6, <1>7 DEF Next

-----------------------------------------------------------------------------
(* Shapes *)

(* A step writes the rule of its job, one fragment of the installer, or    *)
(* what the rollback puts back.                                            *)
LEMMA ConfigStep ==
  ASSUME Shapes, JobInv, [Next]_vars
  PROVE  Shaped(config)'
<1>1. CASE \/ config' = config
           \/ config' = [config EXCEPT !.rule = job.rule]
  BY <1>1, OtherRule DEF Shapes, Shaped
<1>2. CASE Mutations \/ Generating \/ Reboot \/ EnableInit \/ UpdatePacks \/ UNCHANGED vars
  BY <1>1, <1>2 DEF Mutations, Apply, ApplyRefused, Generating, Reboot, EnableInit,
    UpdatePacks, vars, routing, Files
<1>8. CASE Kill \/ InstallFails
  <2>1. config' \in CopyCut
    BY <1>8 DEF Kill, InstallFails
  <2>2. QED
    BY <2>1 DEF CopyCut, Shapes, Shaped
<1>3. CASE UndoPublish \/ UndoFails
  <2>1. Shaped(job.was)
    BY <1>3 DEF JobInv, UndoPublish, UndoFails, Undoing
  <2>2. config' \in {config, job.was}
    BY <1>3 DEF UndoPublish, UndoFails
  <2>3. QED
    BY <1>1, <2>1, <2>2 DEF Shaped
<1>4. CASE ApplySteps
  BY <1>1, <1>3, <1>4 DEF ApplySteps, Files, Backup, Stage, NotPublished, Publish,
    PublishUnsynced, Test, TestFails, Restart, RestartFails, Verify, VerifyFails, Remember,
    RememberFails, RememberUnsynced, UndoTest, UndoRestart, UndoVerify
<1>5. CASE CopyInbounds \/ CopyOutbounds \/ CopyRouting
  BY <1>5 DEF CopyInbounds, CopyOutbounds, CopyRouting, Shapes, Shaped
<1>6. CASE InstallSteps
  BY <1>1, <1>5, <1>6, <1>8 DEF InstallSteps, Files, Reconcile, ReconcileNoop, ReconcileRule,
    ReconcileRefused, ReconcileStage, ReconcilePublish, ReconcileTest, ReconcileFails, Install,
    CopyInit, Installed
<1>7. QED
  BY <1>2, <1>4, <1>6, <1>8 DEF Next

(* Nothing that cannot be read gets into the configuration unnoticed.      *)
LEMMA LegibleStep ==
  ASSUME Shapes, JobInv, Legible, [Next]_vars
  PROVE  Legible'
<1>1. CASE \/ config' = config /\ (sound' => sound)
           \/ config' = [config EXCEPT !.rule = job.rule] /\ (sound' => sound)
           \/ sound' = FALSE
  BY <1>1, OtherRule DEF Shapes, Legible, Readable
<1>2. CASE Mutations \/ Generating \/ Reboot \/ EnableInit \/ UpdatePacks \/ UNCHANGED vars
  <2>1. UpdatePacks => sound' = FALSE
    BY DEF UpdatePacks
  <2>2. ~UpdatePacks => config' = config /\ sound' = sound
    BY <1>2 DEF Mutations, Apply, ApplyRefused, Generating, Reboot, EnableInit, vars, routing,
                Files
  <2>3. QED
    BY <1>1, <2>1, <2>2
<1>3. CASE UndoPublish \/ UndoFails
  <2>1. Readable(job.was)
    BY <1>3 DEF JobInv, UndoPublish, UndoFails, Undoing
  <2>2. config' \in {config, job.was} /\ (sound' => sound)
    BY <1>3 DEF UndoPublish, UndoFails, GoTo, End, Spoil
  <2>3. QED
    BY <2>1, <2>2 DEF Legible, Readable
<1>4. CASE Kill \/ InstallFails
  <2>1. CASE pc \in Copying
    BY <1>1, <1>4, <2>1 DEF Kill, InstallFails, Spoil, Between
  <2>2. CASE pc \notin Copying
    <3>1. config' = config
      BY <1>4, <2>2 DEF Kill, InstallFails, CopyCut, Copying
    <3>2. QED
      BY <1>1, <1>4, <3>1 DEF Kill, InstallFails, Spoil, End
  <2>3. QED
    BY <2>1, <2>2
<1>5. CASE CopyInbounds \/ CopyOutbounds \/ CopyRouting
  <2>1. /\ CopyInbounds => /\ config' = [config EXCEPT !.inbounds = fragments["03_inbounds"]]
                           /\ sound' = (sound /\ fragments["03_inbounds"] # Torn)
        /\ CopyOutbounds => /\ config' = [config EXCEPT !.outbounds = fragments["04_outbounds"],
                                                       !.direct = TRUE]
                            /\ sound' = (sound /\ fragments["04_outbounds"] # Torn)
        /\ CopyRouting => /\ config' = [config EXCEPT !.routing = fragments["05_routing"],
                                                     !.rule = NoRule]
                          /\ sound' = (sound /\ fragments["05_routing"] # Torn)
    BY DEF CopyInbounds, CopyOutbounds, CopyRouting, Copied
  <2>2. QED
    BY <1>5, <2>1 DEF Legible, Readable, Shapes, Shaped
<1>6. CASE Installed
  BY <1>6 DEF Installed, Legible, Readable, Files
<1>7. CASE ApplySteps
  BY <1>1, <1>3, <1>7 DEF ApplySteps, Files, GoTo, End, Undo, Backup, Stage, NotPublished, Publish,
    PublishUnsynced, Test, TestFails, Restart, RestartFails, Verify, VerifyFails, Remember,
    RememberFails, RememberUnsynced, UndoTest, UndoRestart, UndoVerify
<1>8. CASE InstallSteps
  BY <1>1, <1>4, <1>5, <1>6, <1>8 DEF InstallSteps, Files, GoTo, End, Reconcile, ReconcileNoop,
    ReconcileRule, ReconcileRefused, ReconcileStage, ReconcilePublish, ReconcileTest,
    ReconcileFails, Install, CopyInit
<1>9. QED
  BY <1>2, <1>4, <1>7, <1>8 DEF Next

(* The state file is written by an apply alone.                            *)
LEMMA StateStep ==
  ASSUME Shapes, [Next]_vars
  PROVE  state' \in Entries(Overrides) \cup {Missing}
<1>1. CASE state' = state
  BY <1>1 DEF Shapes
<1>2. CASE Remember \/ RememberUnsynced
  BY <1>2, FreshFacts DEF Remember, RememberUnsynced, Shapes, Noted
<1>3. CASE ApplySteps
  BY <1>1, <1>2, <1>3 DEF ApplySteps, Files, Backup, Stage, NotPublished, Publish,
    PublishUnsynced, Test, TestFails, Restart, RestartFails, Verify, VerifyFails,
    RememberFails, UndoPublish, UndoTest, UndoRestart, UndoVerify, UndoFails
<1>4. CASE InstallSteps
  BY <1>1, <1>4 DEF InstallSteps, Files, Reconcile, ReconcileNoop, ReconcileRule,
    ReconcileRefused, ReconcileStage, ReconcilePublish, ReconcileTest, ReconcileFails, Install,
    CopyInbounds, CopyOutbounds, CopyRouting, CopyInit, Installed, InstallFails
<1>5. CASE Mutations \/ Generating \/ Kill \/ Reboot \/ EnableInit \/ UpdatePacks \/ UNCHANGED vars
  BY <1>1, <1>5 DEF Mutations, Apply, ApplyRefused, Generating, Kill, Reboot, EnableInit,
    UpdatePacks, vars, routing, Files
<1>6. QED
  BY <1>3, <1>4, <1>5 DEF Next

(* A job is noted when a command begins; the installer's and the           *)
(* reconciliation's are completed later.                                   *)
LEMMA JobStep ==
  ASSUME Shapes, [Next]_vars
  PROVE  Noted(job)'
<1>1. CASE job' = job
  BY <1>1 DEF Shapes, Noted
<1>2. ASSUME NEW req \in Requests, Apply(req)
      PROVE  Noted(job)'
  <2>1. Mutated(Current, req) \in Overrides
    BY CurrentType, MutatedType DEF Current, Shapes
  <2> DEFINE desired == Mutated(Current, req)
             remember == state = Missing \/ state.text # desired
  <2>2. job' = NewJob(desired, RuleOf(config.inbounds, Expand(desired)), remember)
    BY <1>2, Zenon DEF Apply
  <2>3. remember \in BOOLEAN
    BY Zenon
  <2> HIDE DEF desired, remember
  <2>4. QED
    BY <2>1, <2>2, <2>3, NewJobFacts DEF desired
<1>3. CASE Reconcile \/ Install
  <2>1. Noted(NewJob(Nothing, NoRule, FALSE))
    BY NewJobFacts, NothingType
  <2>2. \A set : Noted([NewJob(Nothing, NoRule, FALSE) EXCEPT !.installs = TRUE, !.set = set])
    BY <2>1, InstallNoted
  <2>3. QED
    BY <1>3, <2>1, <2>2 DEF Reconcile, Install
<1>4. CASE ReconcileRule
  BY <1>4, RuleNoted DEF ReconcileRule, Shapes
<1>10. CASE PublishUnsynced \/ RememberUnsynced
  BY <1>10, UnsyncedNoted DEF PublishUnsynced, RememberUnsynced, Shapes
<1>5. CASE ApplySteps
  BY <1>1, <1>5, <1>10 DEF ApplySteps, GoTo, End, Spoil, Undo, Backup, Stage, NotPublished, Publish,
    Test, TestFails, Restart, RestartFails, Verify, VerifyFails, Remember,
    RememberFails, UndoPublish, UndoTest, UndoRestart, UndoVerify, UndoFails
<1>6. CASE InstallSteps
  BY <1>1, <1>3, <1>4, <1>6 DEF InstallSteps, GoTo, End, Spoil, ReconcileNoop,
    ReconcileRefused, ReconcileStage, ReconcilePublish, ReconcileTest, ReconcileFails,
    Copied, CopyInbounds, CopyOutbounds, CopyRouting, CopyInit, Installed, InstallFails
<1>7. CASE Generating \/ Kill \/ Reboot \/ EnableInit \/ UpdatePacks \/ UNCHANGED vars
  BY <1>1, <1>7 DEF Generating, Kill, Reboot, EnableInit, UpdatePacks, vars, routing, Spoil, End
<1>8. CASE Mutations
  BY <1>1, <1>2, <1>8 DEF Mutations, ApplyRefused
<1>9. QED
  BY <1>5, <1>6, <1>7, <1>8 DEF Next

(* A command goes from one of its steps to another.                        *)
LEMMA LabelStep ==
  ASSUME Shapes, [Next]_vars
  PROVE  pc' \in Labels
<1>1. CASE pc' = pc
  BY <1>1 DEF Shapes
<1>2. CASE pc' = "idle"
  BY <1>2 DEF Labels
<1>3. CASE ApplySteps
  <2>1. pc' \in {"idle", "stage", "publish", "test", "restart", "verify", "remember", "undo",
                "undo-test", "undo-restart", "undo-verify"}
    BY <1>3 DEF ApplySteps, GoTo, End, Spoil, Undo, Backup, Stage, NotPublished, Publish,
      PublishUnsynced, Test, TestFails, Restart, RestartFails, Verify, VerifyFails, Remember,
      RememberFails, RememberUnsynced, UndoPublish, UndoTest, UndoRestart, UndoVerify, UndoFails
  <2>2. QED
    BY <2>1 DEF Labels, Applying, Undoing
<1>4. CASE InstallSteps
  <2>1. pc' \in {"idle", "reconcile", "rec-stage", "rec-publish", "rec-test", "copy-03",
                "copy-04", "copy-05", "copy-init", "install-test"}
    BY <1>4 DEF InstallSteps, GoTo, End, Spoil, Reconciled, Reconcile, ReconcileNoop,
      ReconcileRule, ReconcileRefused, ReconcileStage, ReconcilePublish, ReconcileTest,
      ReconcileFails, Install, Copied, CopyInbounds, CopyOutbounds, CopyRouting, CopyInit,
      Installed, InstallFails
  <2>2. QED
    BY <2>1 DEF Labels, Reconciling, Installing, Copying
<1>5. CASE Mutations
  <2>1. pc' \in {"idle", "backup", "remember"}
    BY <1>5 DEF Mutations, Apply, ApplyRefused
  <2>2. QED
    BY <2>1 DEF Labels, Applying
<1>6. CASE Generating \/ Kill \/ Reboot \/ EnableInit \/ UpdatePacks \/ UNCHANGED vars
  BY <1>1, <1>2, <1>6 DEF Generating, Kill, Reboot, EnableInit, UpdatePacks, vars, routing,
    Spoil, End
<1>7. QED
  BY <1>3, <1>4, <1>5, <1>6 DEF Next

(* The init script, the flag of soundness, and the exit of a command that  *)
(* is still running.                                                       *)
LEMMA RestStep ==
  ASSUME Shapes, [Next]_vars
  PROVE  /\ init' \in {"absent", "off", "on"} /\ sound' \in BOOLEAN
         /\ pc' # "idle" => exit' = "none"
<1> USE DEF Shapes
<1>1. CASE ApplySteps
  BY <1>1 DEF ApplySteps, quiet, GoTo, End, Spoil, Undo, Backup, Stage, NotPublished, Publish,
    PublishUnsynced, Test, TestFails, Restart, RestartFails, Verify, VerifyFails, Remember,
    RememberFails, RememberUnsynced, UndoPublish, UndoTest, UndoRestart, UndoVerify, UndoFails,
    Undoing
<1>2. CASE InstallSteps
  BY <1>2 DEF InstallSteps, quiet, GoTo, End, Spoil, Reconciled, Reconcile, ReconcileNoop,
    ReconcileRule, ReconcileRefused, ReconcileStage, ReconcilePublish, ReconcileTest,
    ReconcileFails, Install, Copied, CopyInbounds, CopyOutbounds, CopyRouting, CopyInit,
    Installed, InstallFails, Installing, Copying
<1>3. CASE Mutations
  BY <1>3 DEF Mutations, Apply, ApplyRefused, quiet
<1>4. CASE Generating \/ Kill \/ Reboot \/ EnableInit \/ UpdatePacks \/ UNCHANGED vars
  BY <1>4 DEF Generating, Kill, Reboot, EnableInit, UpdatePacks, vars, routing, quiet, Spoil, End
<1>5. QED
  BY <1>1, <1>2, <1>3, <1>4 DEF Next

(* Every step keeps the shapes of the values.                               *)
LEMMA ShapesStep ==
  ASSUME Shapes, JobInv, [Next]_vars
  PROVE  Shapes'
BY ConfigStep, StateStep, JobStep, LabelStep, RestStep DEF Shapes

-----------------------------------------------------------------------------
(* Where a step leads *)

(* Between two commands only the rule, and what the last command promised, *)
(* are left to show.                                                       *)
LEMMA Stops ==
  ASSUME pc' = "idle", exit' \notin {"failed", "applied", "installed"},
         sound' => Managed(pack', config', state')
  PROVE  Progress'
<1>1. (JobInv /\ ApplyInv /\ CopyInv /\ ReconcileInv)'
  BY DEF JobInv, ApplyInv, CopyInv, ReconcileInv, Applying, Undoing, Ahead, Behind, Reconciling,
         Copying, Installing
<1>2. Recognizable'
  BY DEF Recognizable
<1>3. (AllOrNothing /\ AppliedInForce /\ InstalledWhole)'
  BY DEF AllOrNothing, AppliedInForce, InstalledWhole
<1>4. QED
  BY <1>1, <1>2, <1>3 DEF Progress, EndInv

(* A job that fails with everything put back leaves what it found, but for *)
(* a file it could not synchronize.                                        *)
LEMMA Fails ==
  ASSUME pc' = "idle", exit' = "failed", AllOrNothing',
         sound' => Managed(pack', config', state')
  PROVE  Progress'
<1>1. (JobInv /\ ApplyInv /\ CopyInv /\ ReconcileInv)'
  BY DEF JobInv, ApplyInv, CopyInv, ReconcileInv, Applying, Undoing, Ahead, Behind, Reconciling,
         Copying, Installing
<1>2. Recognizable'
  BY DEF Recognizable
<1>3. (AppliedInForce /\ InstalledWhole)'
  BY DEF AppliedInForce, InstalledWhole
<1>4. QED
  BY <1>1, <1>2, <1>3 DEF Progress, EndInv

(* An apply that ended well: its rule is the one of the state file.        *)
LEMMA Applies ==
  ASSUME pc' = "idle", exit' = "applied", job'.desired \in Overrides,
         live' = config', state' = Fresh(job'.desired),
         config'.rule = RuleOf(config'.inbounds, Expansion(pack', job'.desired))
  PROVE  Progress'
<1>1. (JobInv /\ ApplyInv /\ CopyInv /\ ReconcileInv)'
  BY DEF JobInv, ApplyInv, CopyInv, ReconcileInv, Applying, Undoing, Ahead, Behind, Reconciling,
         Copying, Installing
<1>2. CurrentOf(pack', config', state') = job'.desired
  BY FreshFacts, CurrentIsText
<1>3. Recognizable'
  BY <1>2 DEF Recognizable, Managed
<1>4. (AllOrNothing /\ AppliedInForce /\ InstalledWhole)'
  BY DEF AllOrNothing, AppliedInForce, InstalledWhole, Expand
<1>5. QED
  BY <1>1, <1>3, <1>4 DEF Progress, EndInv

(* Within a command nothing is promised yet.                               *)
LEMMA ApplyContinues ==
  ASSUME pc' \in Applying \cup Undoing, exit' = "none", JobInv', ApplyInv'
  PROVE  Progress'
<1>1. (CopyInv /\ ReconcileInv)'
  BY DEF CopyInv, ReconcileInv, Applying, Undoing, Reconciling, Copying, Installing
<1>2. EndInv'
  BY DEF EndInv, Recognizable, AllOrNothing, AppliedInForce, InstalledWhole, Applying, Undoing
<1>3. QED
  BY <1>1, <1>2 DEF Progress

(* While an installation goes on, only its own parts are claimed.           *)
LEMMA InstallContinues ==
  ASSUME pc' \in Reconciling \cup Installing, exit' = "none", CopyInv', ReconcileInv'
  PROVE  Progress'
<1>1. (JobInv /\ ApplyInv)'
  BY DEF JobInv, ApplyInv, Applying, Undoing, Ahead, Behind, Reconciling, Copying, Installing
<1>2. EndInv'
  BY DEF EndInv, Recognizable, AllOrNothing, AppliedInForce, InstalledWhole, Reconciling, Copying,
         Installing
<1>3. QED
  BY <1>1, <1>2 DEF Progress

(* What an apply has noted stays true while it runs.                       *)
LEMMA SameJob ==
  ASSUME JobInv, pc \in Applying \cup Undoing, UNCHANGED <<job, pack>>,
         state' = state, sound' => sound
  PROVE  JobInv'
BY DEF JobInv, Managed, Expand

-----------------------------------------------------------------------------
(* apply *)

(* An apply begins only where the rule is recognized.                      *)
LEMMA ApplyStep ==
  ASSUME Shapes, NEW req \in Requests, Apply(req)
  PROVE  Progress'
<1> DEFINE desired == Mutated(Current, req)
           rule == RuleOf(config.inbounds, Expand(desired))
           remember == state = Missing \/ state.text # desired
<1>1. /\ pc = "idle" /\ PlanAccepted(desired)
      /\ job' = NewJob(desired, rule, remember)
      /\ UNCHANGED <<config, state, live, sound, pack>>
      /\ config.rule # rule => pc' = "backup"
      /\ config.rule = rule => pc' = IF remember THEN "remember" ELSE "idle"
      /\ exit' = IF config.rule = rule /\ ~remember THEN "ok" ELSE "none"
  BY Zenon DEF Apply, Files, quiet
<1>2. desired \in Overrides
  BY CurrentType, MutatedType DEF Current, Shapes
<1>3. /\ Managed(pack, config, state) /\ (state # Missing => Private(state))
      /\ Readable(config)
  BY <1>1 DEF PlanAccepted, Recognized, Managed, Current, Expand
<1>4. remember \in BOOLEAN /\ remember = (state = Missing \/ state.text # desired)
  BY Zenon
<1> HIDE DEF desired, remember
<1>5. /\ job'.desired = desired /\ job'.rule = rule /\ job'.remember = remember
      /\ job'.was = config /\ job'.kept = state /\ job'.ran = live /\ job'.unsynced = "nothing"
  <2>1. job' = NewJob(desired, rule, remember)
    BY <1>1
  <2> HIDE DEF rule
  <2>2. job' = [desired |-> desired, rule |-> rule, remember |-> remember, was |-> config,
                kept |-> state, ran |-> live, unsynced |-> "nothing", installs |-> FALSE,
                set |-> None]
    BY <2>1 DEF NewJob
  <2>3. QED
    BY <2>2
<1> HIDE DEF rule
<1>6. CASE config.rule = rule /\ ~remember
  BY <1>1, <1>3, <1>6, Stops
<1>7. CASE ~(config.rule = rule /\ ~remember)
  <2>1. pc' \in {"backup", "remember"} /\ exit' = "none"
    BY <1>1, <1>4, <1>7
  <2>2. JobInv'
    BY <1>1, <1>3, <1>4, <1>5 DEF JobInv, Shapes, Managed, Readable, Expand, rule, Shaped
  <2>3. pc' = "remember" => config'.rule = rule /\ remember
    BY <1>1, <1>4
  <2>4. pc' = "remember" => config = [config EXCEPT !.rule = rule]
    BY <1>1, <2>3, OtherRule DEF Shapes
  <2>5. pc' = "backup" => config.rule # rule
    BY <1>1
  <2>6. ApplyInv'
    BY <1>1, <1>5, <2>1, <2>3, <2>4, <2>5 DEF ApplyInv, Ahead, Behind, Applying, Undoing
  <2>7. QED
    BY <2>1, <2>2, <2>6, ApplyContinues DEF Applying
<1>8. QED
  BY <1>6, <1>7

(* Before the rule is published the configuration is the one it found.     *)
LEMMA AheadSteps ==
  ASSUME Shapes, Progress, Backup \/ Stage \/ NotPublished \/ Publish \/ PublishUnsynced
  PROVE  Progress'
<1> USE DEF Progress
<1>1. /\ pc \in Ahead /\ pc \in Applying /\ exit = "none" /\ job.unsynced = "nothing"
      /\ config = job.was /\ live = job.ran /\ state = job.kept /\ job.rule # job.was.rule
      /\ UNCHANGED <<pack, state, live>>
      /\ ~PublishUnsynced => job' = job
  BY DEF Backup, Stage, NotPublished, Publish, PublishUnsynced, GoTo, End, Files, quiet,
         Shapes, ApplyInv, JobInv, Ahead, Applying
<1>2. Shaped(job.was) /\ Managed(pack, job.was, job.kept)
  BY <1>1 DEF JobInv
<1>3. CASE Backup \/ Stage
  <2>1. /\ pc' \in {"stage", "publish"} /\ UNCHANGED <<config, exit, sound, job>>
    BY <1>3 DEF Backup, Stage, GoTo, Files
  <2>2. JobInv'
    BY <1>1, <2>1, SameJob
  <2>3. ApplyInv'
    BY <1>1, <2>1 DEF ApplyInv, Ahead, Behind, Applying, Undoing
  <2>4. QED
    BY <1>1, <2>1, <2>2, <2>3, ApplyContinues DEF Applying
<1>4. CASE NotPublished
  <2>1. pc' = "idle" /\ exit' = "failed" /\ UNCHANGED <<config, job, sound>>
    BY <1>4 DEF NotPublished, End, Files
  <2>2. AllOrNothing'
    BY <1>1, <2>1 DEF AllOrNothing
  <2>3. QED
    BY <1>1, <1>2, <2>1, <2>2, Fails
<1>5. CASE Publish
  <2>1. /\ pc' = "test" /\ UNCHANGED <<exit, sound, job>>
        /\ config' = [config EXCEPT !.rule = job.rule]
    BY <1>5 DEF Publish, GoTo
  <2>2. JobInv'
    BY <1>1, <2>1, SameJob
  <2>3. ApplyInv'
    BY <1>1, <2>1 DEF ApplyInv, Ahead, Behind, Applying, Undoing
  <2>4. QED
    BY <1>1, <2>1, <2>2, <2>3, ApplyContinues DEF Applying
<1>6. CASE PublishUnsynced
  <2>1. /\ pc' = "idle" /\ exit' = "failed" /\ sound' = FALSE
        /\ config' = [config EXCEPT !.rule = job.rule]
        /\ job' = [job EXCEPT !.unsynced = "route"]
    BY <1>6 DEF PublishUnsynced
  <2>2. /\ job'.unsynced = "route" /\ job'.was = job.was /\ job'.rule = job.rule
        /\ job'.kept = job.kept /\ job'.ran = job.ran
    BY <2>1, UnsyncedNoted DEF Shapes
  <2>3. AllOrNothing'
    BY <1>1, <2>1, <2>2 DEF AllOrNothing
  <2>4. QED
    BY <2>1, <2>3, Fails
<1>7. QED
  BY <1>3, <1>4, <1>5, <1>6

(* With the new rule in place Xray is tested, restarted and verified; a    *)
(* failure leads to the rollback.                                          *)
LEMMA BehindSteps ==
  ASSUME Shapes, Progress,
         Test \/ TestFails \/ Restart \/ RestartFails \/ Verify \/ VerifyFails
  PROVE  Progress'
<1> USE DEF Progress
<1>1. /\ pc \in Behind /\ pc \in Applying /\ exit = "none"
      /\ state = job.kept /\ job.rule # job.was.rule /\ job.unsynced = "nothing"
      /\ config = [job.was EXCEPT !.rule = job.rule]
      /\ UNCHANGED <<job, pack, state, config, sound>>
  BY DEF Test, TestFails, Restart, RestartFails, Verify, VerifyFails, GoTo, End, Files, quiet,
         Shapes, ApplyInv, JobInv, Behind, Applying
<1>2. /\ Shaped(job.was) /\ job.rule = RuleOf(job.was.inbounds, Expand(job.desired))
      /\ job.kept # Missing => Private(job.kept)
      /\ job.remember = (job.kept = Missing \/ job.kept.text # job.desired)
  BY <1>1 DEF JobInv
<1>3. CASE Test \/ TestFails \/ Restart \/ RestartFails \/ VerifyFails
  <2>1. /\ pc' \in {"restart", "verify", "undo"} /\ exit' = exit
        /\ pc' = "verify" => live' = config'
    BY <1>1, <1>3 DEF Test, TestFails, Restart, RestartFails, VerifyFails, GoTo
  <2>2. JobInv'
    BY <1>1, <2>1, SameJob
  <2>3. ApplyInv'
    BY <1>1, <2>1 DEF ApplyInv, Ahead, Behind, Applying, Undoing
  <2>4. QED
    BY <1>1, <2>1, <2>2, <2>3, ApplyContinues DEF Applying, Undoing
<1>4. CASE Verify /\ job.remember
  <2>1. pc = "verify" /\ pc' = "remember" /\ UNCHANGED <<exit, live>>
    BY <1>4 DEF Verify, GoTo
  <2>2. JobInv'
    BY <1>1, <2>1, SameJob
  <2>3. live = config
    BY <1>1, <2>1 DEF ApplyInv
  <2>4. ApplyInv'
    BY <1>1, <1>4, <2>1, <2>3 DEF ApplyInv, Ahead, Behind, Applying, Undoing
  <2>5. QED
    BY <1>1, <2>1, <2>2, <2>4, ApplyContinues DEF Applying
<1>5. CASE Verify /\ ~job.remember
  <2>1. pc = "verify" /\ pc' = "idle" /\ exit' = "applied" /\ live' = live
    BY <1>5 DEF Verify, End
  <2>2. live = config
    BY <1>1, <2>1 DEF ApplyInv
  <2>3. /\ state # Missing /\ state.text = job.desired /\ state.private
    BY <1>1, <1>2, <1>5 DEF Private
  <2>4. state.private \in BOOLEAN /\ state = [text |-> state.text, private |-> state.private]
    BY <2>3 DEF Shapes, Entries
  <2>5. state = Fresh(job.desired)
    BY <2>3, <2>4 DEF Fresh
  <2>6. config.rule = RuleOf(config.inbounds, Expand(job.desired))
    BY <1>1, <1>2, OtherRule
  <2>7. job.desired \in Overrides
    BY DEF Shapes, Noted
  <2>8. QED
    BY <1>1, <2>1, <2>2, <2>5, <2>6, <2>7, Applies DEF Expand
<1>6. QED
  BY <1>3, <1>4, <1>5

(* The state file is written last.                                         *)
LEMMA RememberSteps ==
  ASSUME Shapes, Progress, Remember \/ RememberFails \/ RememberUnsynced
  PROVE  Progress'
<1> USE DEF Progress
<1>1. /\ pc = "remember" /\ pc \in Applying /\ exit = "none" /\ state = job.kept
      /\ job.remember /\ job.unsynced = "nothing"
      /\ config = [job.was EXCEPT !.rule = job.rule]
      /\ job.rule # job.was.rule => live = config
      /\ job.rule = job.was.rule => live = job.ran
      /\ UNCHANGED <<pack, config, live>>
      /\ ~RememberUnsynced => job' = job
  BY DEF Remember, RememberFails, RememberUnsynced, GoTo, End, Undo, Files, quiet, Shapes,
         ApplyInv, JobInv, Applying
<1>2. /\ Shaped(job.was) /\ job.rule = RuleOf(job.was.inbounds, Expand(job.desired))
      /\ Managed(pack, job.was, job.kept)
  BY <1>1 DEF JobInv
<1>3. /\ config.rule = job.rule /\ config.inbounds = job.was.inbounds
      /\ job.rule = job.was.rule => config = job.was
  BY <1>1, <1>2, OtherRule
<1>4. job.desired \in Overrides
  BY DEF Shapes, Noted
<1>5. CASE Remember
  <2>1. /\ pc' = "idle" /\ state' = Fresh(job.desired) /\ job' = job
        /\ exit' = IF job.rule = job.was.rule THEN "ok" ELSE "applied"
    BY <1>5 DEF Remember, End
  <2>2. CASE job.rule # job.was.rule
    BY <1>1, <1>2, <1>3, <1>4, <2>1, <2>2, Applies DEF Expand
  <2>3. CASE job.rule = job.was.rule
    <3>1. CurrentOf(pack, config, state') = job.desired
      BY <1>4, <2>1, FreshFacts, CurrentIsText
    <3>2. Managed(pack', config', state')
      BY <1>1, <1>2, <1>3, <3>1 DEF Managed, Expand
    <3>3. QED
      BY <2>1, <2>3, <3>2, Stops
  <2>4. QED
    BY <2>2, <2>3
<1>6. CASE RememberFails
  <2>1. /\ UNCHANGED <<job, state, sound>> /\ Undo
        /\ job.rule = job.was.rule => pc' = "idle" /\ exit' = "failed"
        /\ job.rule # job.was.rule => pc' = "undo" /\ exit' = exit
    BY <1>6 DEF RememberFails, Undo, GoTo, End, Files
  <2>2. CASE job.rule = job.was.rule
    <3>1. AllOrNothing'
      BY <1>1, <1>3, <2>1, <2>2 DEF AllOrNothing
    <3>2. QED
      BY <1>1, <1>2, <1>3, <2>1, <2>2, <3>1, Fails
  <2>3. CASE job.rule # job.was.rule
    <3>1. JobInv'
      BY <1>1, <2>1, <2>3, SameJob
    <3>2. ApplyInv'
      BY <1>1, <2>1, <2>3 DEF ApplyInv, Ahead, Behind, Applying, Undoing
    <3>3. QED
      BY <1>1, <2>1, <2>3, <3>1, <3>2, ApplyContinues DEF Undoing
  <2>4. QED
    BY <2>2, <2>3
<1>7. CASE RememberUnsynced
  <2>1. /\ state' = Fresh(job.desired) /\ sound' = FALSE
        /\ job' = [job EXCEPT !.unsynced = "state"]
        /\ job.rule = job.was.rule => pc' = "idle" /\ exit' = "failed"
        /\ job.rule # job.was.rule => pc' = "undo" /\ exit' = exit
    BY <1>7 DEF RememberUnsynced
  <2>2. /\ job'.unsynced = "state" /\ job'.was = job.was /\ job'.rule = job.rule
        /\ job'.kept = job.kept /\ job'.ran = job.ran /\ job'.desired = job.desired
        /\ job'.remember = job.remember
    BY <2>1, UnsyncedNoted DEF Shapes
  <2>3. CASE job.rule = job.was.rule
    <3>1. AllOrNothing'
      BY <1>1, <1>3, <2>1, <2>2, <2>3 DEF AllOrNothing
    <3>2. QED
      BY <2>1, <2>3, <3>1, Fails
  <2>4. CASE job.rule # job.was.rule
    <3>1. /\ Shaped(job.was) /\ Readable(job.was) /\ Managed(pack, job.was, job.kept)
          /\ job.rule = RuleOf(job.was.inbounds, Expansion(pack, job.desired))
          /\ job.kept # Missing => Private(job.kept)
          /\ job.remember = (job.kept = Missing \/ job.kept.text # job.desired)
      BY <1>1 DEF JobInv, Expand, Applying
    <3>2. UNCHANGED pack
      BY <1>1
    <3>5. JobInv'
      BY <2>1, <2>2, <3>1, <3>2 DEF JobInv, Expand
    <3>4. ApplyInv'
      BY <1>1, <2>1, <2>2, <2>4 DEF ApplyInv, Ahead, Behind, Applying, Undoing
    <3>3. QED
      BY <1>1, <2>1, <2>4, <3>4, <3>5, ApplyContinues DEF Undoing
  <2>5. QED
    BY <2>3, <2>4
<1>8. QED
  BY <1>5, <1>6, <1>7

(* The rollback puts the configuration back before it restarts Xray.       *)
LEMMA UndoSteps ==
  ASSUME Shapes, Progress, UndoPublish \/ UndoTest \/ UndoRestart \/ UndoVerify \/ UndoFails
  PROVE  Progress'
<1> USE DEF Progress
<1>1. /\ pc \in Undoing /\ exit = "none" /\ job.rule # job.was.rule
      /\ pc = "undo" => config = [job.was EXCEPT !.rule = job.rule]
      /\ pc # "undo" => config = job.was
      /\ UNCHANGED <<job, pack, state>>
  BY DEF UndoPublish, UndoTest, UndoRestart, UndoVerify, UndoFails, GoTo, End, Spoil, Files, quiet,
         Shapes, ApplyInv, Undoing
<1>2. /\ Shaped(job.was) /\ Managed(pack, job.was, job.kept)
      /\ job.unsynced \in {"nothing", "state"}
      /\ state = IF job.unsynced = "state" THEN Fresh(job.desired) ELSE job.kept
      /\ sound => state = job.kept
  BY <1>1 DEF JobInv
<1>3. CASE UndoPublish \/ UndoTest \/ UndoRestart
  <2>1. /\ pc' \in Undoing \ {"undo"} /\ UNCHANGED <<exit, sound>>
        /\ config' = job.was
        /\ pc' = "undo-verify" => live' = config'
    BY <1>1, <1>3 DEF UndoPublish, UndoTest, UndoRestart, GoTo, Files, Undoing
  <2>2. JobInv'
    BY <1>1, <2>1, SameJob
  <2>3. ApplyInv'
    BY <1>1, <2>1 DEF ApplyInv, Ahead, Behind, Applying, Undoing
  <2>4. QED
    BY <1>1, <2>1, <2>2, <2>3, ApplyContinues
<1>4. CASE UndoVerify
  <2>1. /\ pc = "undo-verify" /\ pc' = "idle" /\ exit' = "failed"
        /\ UNCHANGED <<config, live, sound>>
    BY <1>4 DEF UndoVerify, End, Files
  <2>2. live = config /\ config = job.was
    BY <1>1, <2>1 DEF ApplyInv
  <2>4. AllOrNothing'
    BY <1>1, <1>2, <2>1, <2>2 DEF AllOrNothing
  <2>3. QED
    BY <1>1, <1>2, <2>1, <2>2, <2>4, Fails
<1>5. CASE UndoFails
  <2>1. /\ pc' = "idle" /\ exit' = "unproven" /\ config' \in {config, job.was}
        /\ sound' => sound /\ config'.rule = job.was.rule
    BY <1>5 DEF UndoFails, End, Spoil
  <2>2. sound' => config' = job.was
    BY <1>1, <1>2, <2>1, OtherRule
  <2>3. QED
    BY <1>1, <1>2, <2>1, <2>2, Stops
<1>6. QED
  BY <1>3, <1>4, <1>5

-----------------------------------------------------------------------------
(* reconcile *)

(* A reconciliation may begin at any time; within the installer it is      *)
(* reached once the fragments are copied.                                  *)
LEMMA ReconcileBegins ==
  ASSUME Shapes, Progress, Reconcile
  PROVE  Progress'
<1>1. /\ pc = "idle" /\ pc' = "reconcile" /\ exit' = "none"
      /\ job' = NewJob(Nothing, NoRule, FALSE)
      /\ UNCHANGED <<config, state, pack, sound>>
  BY DEF Reconcile, Files, quiet
<1>2. job'.installs = FALSE
  BY <1>1, NewJobFacts, NothingType
<1>3. sound => Managed(pack, config, state)
  BY <1>1 DEF Progress, EndInv, Recognizable
<1>4. CopyInv'
  BY <1>1, <1>2 DEF CopyInv, Copying, Installing
<1>5. ReconcileInv'
  BY <1>1, <1>2, <1>3 DEF ReconcileInv
<1>6. QED
  BY <1>1, <1>4, <1>5, InstallContinues DEF Reconciling

(* The rule the state file asks for is the managed one.                    *)
LEMMA AskedManaged ==
  ASSUME state # Missing, NEW cfg, cfg.rule = RuleOf(cfg.inbounds, Expand(state.text))
  PROVE  Managed(pack, cfg, state)
BY CurrentIsText DEF Managed, Expand

(* What has been copied stays copied when only the rule changes.           *)
LEMMA CopyKept ==
  ASSUME CopyInv, pc \in Reconciling \cup Installing,
         pc' \in Reconciling \cup {"copy-init", "install-test"}, pc \notin Copying,
         pc' \in Installing => job.installs,
         job'.installs = job.installs, job'.set = job.set, fragments' = fragments,
         config'.inbounds = config.inbounds, config'.outbounds = config.outbounds,
         config'.routing = config.routing
  PROVE  CopyInv'
BY DEF CopyInv, Reconciling, Installing, Copying

(* A reconciliation that has put the rule in place, or had none to put,    *)
(* ends, or lets the installer go on.                                      *)
LEMMA ReconciledKeeps ==
  ASSUME Shapes, CopyInv, pc \in Reconciling, exit = "none", Reconciled,
         UNCHANGED <<config, state, pack, job, sound, fragments>>,
         job.installs => Managed(pack, config, state) /\ Asked,
         sound => Managed(pack, config, state)
  PROVE  Progress'
<1>1. CASE job.installs
  <2>1. pc' = "copy-init" /\ exit' = "none"
    BY <1>1 DEF Reconciled
  <2>2. CopyInv'
    BY <1>1, <2>1, CopyKept DEF Reconciling, Copying, Installing
  <2>3. ReconcileInv'
    BY <1>1, <2>1 DEF ReconcileInv, Asked, Expand
  <2>4. QED
    BY <2>1, <2>2, <2>3, InstallContinues DEF Installing
<1>2. CASE ~job.installs
  BY <1>2, Stops DEF Reconciled
<1>3. QED
  BY <1>1, <1>2

(* Reconciling one fragment keeps what an installation is owed.             *)
LEMMA ReconcileSteps ==
  ASSUME Shapes, Progress,
         \/ ReconcileNoop \/ ReconcileRule \/ ReconcileRefused \/ ReconcileStage
         \/ ReconcilePublish \/ ReconcileTest \/ ReconcileFails
  PROVE  Progress'
<1>1. /\ pc \in Reconciling /\ exit = "none" /\ CopyInv /\ ReconcileInv
      /\ UNCHANGED <<state, pack, sound, fragments>>
  BY DEF ReconcileNoop, ReconcileRule, ReconcileRefused, ReconcileStage, ReconcilePublish,
         ReconcileTest, ReconcileFails, Reconciling, GoTo, End, Files, quiet, profileFiles,
         Shapes, Progress
<1>2. CASE ReconcileNoop
  <2>1. /\ pc = "reconcile" /\ Reconciled /\ UNCHANGED <<config, job>>
        /\ state # Missing => Expand(state.text) = <<>>
    BY <1>2 DEF ReconcileNoop, Files
  <2>2. job.installs => config.rule = NoRule
    BY <1>1, <2>1 DEF ReconcileInv
  <2>3. job.installs => Managed(pack, config, state) /\ Asked
    BY <2>1, <2>2, RuleFacts DEF Managed, Asked
  <2>4. sound => Managed(pack, config, state)
    BY <1>1, <2>1 DEF ReconcileInv
  <2>5. QED
    BY <1>1, <2>1, <2>3, <2>4, ReconciledKeeps
<1>3. CASE ReconcileRule
  <2>1. /\ pc = "reconcile" /\ pc' = "rec-stage" /\ UNCHANGED <<config, exit>>
        /\ state # Missing /\ Recognized(<<>>)
        /\ job' = [job EXCEPT !.rule = RuleOf(config.inbounds, Expand(state.text))]
    BY <1>3 DEF ReconcileRule, Restorable, Files
  <2>2. config.rule = NoRule
    BY <2>1, RuleFacts DEF Recognized
  <2>3. /\ job'.rule = RuleOf(config.inbounds, Expand(state.text))
        /\ job'.installs = job.installs /\ job'.set = job.set
    BY <2>1, RuleNoted DEF Shapes
  <2>4. CopyInv'
    BY <1>1, <2>1, <2>3, CopyKept DEF Reconciling, Copying, Installing
  <2>5. ReconcileInv'
    BY <1>1, <2>1, <2>2, <2>3 DEF ReconcileInv, Expand
  <2>6. QED
    BY <1>1, <2>1, <2>4, <2>5, InstallContinues DEF Reconciling
<1>4. CASE ReconcileRefused
  BY <1>1, <1>4, Stops DEF ReconcileRefused, End, Files, ReconcileInv
<1>5. CASE ReconcileStage
  <2>1. /\ pc = "rec-stage" /\ pc' = "rec-publish" /\ UNCHANGED <<config, exit, job>>
    BY <1>5 DEF ReconcileStage, GoTo, Files
  <2>2. CopyInv'
    BY <1>1, <2>1, CopyKept DEF Reconciling, Copying, Installing
  <2>3. ReconcileInv'
    BY <1>1, <2>1 DEF ReconcileInv, Expand
  <2>4. QED
    BY <1>1, <2>1, <2>2, <2>3, InstallContinues DEF Reconciling
<1>6. CASE ReconcilePublish
  <2>1. /\ pc = "rec-publish" /\ pc' = "rec-test" /\ UNCHANGED <<exit, job>>
        /\ config' = [config EXCEPT !.rule = job.rule]
    BY <1>6 DEF ReconcilePublish, GoTo
  <2>2. /\ config'.rule = job.rule /\ config'.inbounds = config.inbounds
        /\ config'.outbounds = config.outbounds /\ config'.routing = config.routing
    BY <2>1, OtherRule DEF Shapes
  <2>3. CopyInv'
    BY <1>1, <2>1, <2>2, CopyKept DEF Reconciling, Copying, Installing
  <2>4. ReconcileInv'
    BY <1>1, <2>1, <2>2 DEF ReconcileInv, Expand
  <2>5. QED
    BY <1>1, <2>1, <2>3, <2>4, InstallContinues DEF Reconciling
<1>7. CASE ReconcileTest
  <2>1. pc = "rec-test" /\ Reconciled /\ UNCHANGED <<config, job>>
    BY <1>7 DEF ReconcileTest, Files
  <2>2. /\ state # Missing /\ config.rule = RuleOf(config.inbounds, Expand(state.text))
    BY <1>1, <2>1 DEF ReconcileInv
  <2>3. Managed(pack, config, state) /\ Asked
    BY <2>2, AskedManaged DEF Asked
  <2>4. QED
    BY <1>1, <2>1, <2>3, ReconciledKeeps
<1>8. CASE ReconcileFails
  <2>1. /\ pc \in {"rec-stage", "rec-publish", "rec-test"} /\ pc' = "idle"
        /\ exit' = "incomplete"
        /\ \/ config' = config
           \/ pc = "rec-publish" /\ config' = [config EXCEPT !.rule = job.rule]
    BY <1>8 DEF ReconcileFails, End
  <2>2. /\ state # Missing /\ job.rule = RuleOf(config.inbounds, Expand(state.text))
        /\ config.rule \in {NoRule, job.rule}
    BY <1>1, <2>1 DEF ReconcileInv
  <2>3. config'.rule \in {NoRule, job.rule} /\ config'.inbounds = config.inbounds
    BY <2>1, <2>2, OtherRule DEF Shapes
  <2>4. Managed(pack, config', state)
    BY <2>2, <2>3, AskedManaged DEF Managed
  <2>5. QED
    BY <1>1, <2>1, <2>4, Stops
<1>9. QED
  BY <1>2, <1>3, <1>4, <1>5, <1>6, <1>7, <1>8

-----------------------------------------------------------------------------
(* The installer *)

(* The installer begins with the fragments the manifest describes.         *)
LEMMA InstallBegins ==
  ASSUME Shapes, GeneratorInv, Install
  PROVE  Progress'
<1> DEFINE first == NewJob(Nothing, NoRule, FALSE)
           set == IF manifest = Missing THEN None ELSE manifest.text
<1>1. /\ pc' = "copy-03" /\ exit' = "none"
      /\ job' = [first EXCEPT !.installs = TRUE, !.set = set]
      /\ UNCHANGED <<config, state, pack, sound, fragments, manifest>>
  BY DEF Install, Files, quiet, profileFiles
<1>2. Noted(first)
  BY NewJobFacts, NothingType
<1> HIDE DEF first, set
<1>3. job'.installs = TRUE /\ job'.set = set
  BY <1>1, <1>2, InstallNoted
<1>4. set # None => \A f \in Fragment : fragments[f] = set
  BY DEF set, GeneratorInv, ManifestWhole
<1>5. CopyInv'
  BY <1>1, <1>3, <1>4 DEF CopyInv, Copying
<1>6. ReconcileInv'
  BY <1>1 DEF ReconcileInv
<1>7. QED
  BY <1>1, <1>5, <1>6, InstallContinues DEF Installing, Copying

(* Copying the three fragments keeps what an installation is owed.          *)
LEMMA CopySteps ==
  ASSUME Shapes, Progress, CopyInbounds \/ CopyOutbounds \/ CopyRouting
  PROVE  Progress'
<1>1. /\ pc \in Copying /\ pc' \in {"copy-04", "copy-05", "reconcile"} /\ exit' = "none"
      /\ CopyInv /\ job.installs
      /\ UNCHANGED <<job, state, pack, fragments>>
  BY DEF CopyInbounds, CopyOutbounds, CopyRouting, Copied, Copying, Installing, quiet, profileFiles, Shapes,
         Progress, CopyInv
<1>2. CASE CopyInbounds
  <2>1. /\ pc = "copy-03" /\ pc' = "copy-04"
        /\ config' = [config EXCEPT !.inbounds = fragments["03_inbounds"]]
    BY <1>2 DEF CopyInbounds, Copied
  <2>2. config'.inbounds = fragments["03_inbounds"]
    BY <2>1 DEF Shapes, Shaped
  <2>3. CopyInv'
    BY <1>1, <2>1, <2>2 DEF CopyInv, Copying, Installing, Fragment
  <2>4. ReconcileInv'
    BY <2>1 DEF ReconcileInv
  <2>5. QED
    BY <1>1, <2>1, <2>3, <2>4, InstallContinues DEF Installing, Copying
<1>3. CASE CopyOutbounds
  <2>1. /\ pc = "copy-04" /\ pc' = "copy-05"
        /\ config' = [config EXCEPT !.outbounds = fragments["04_outbounds"], !.direct = TRUE]
    BY <1>3 DEF CopyOutbounds, Copied
  <2>2. config'.outbounds = fragments["04_outbounds"] /\ config'.inbounds = config.inbounds
    BY <2>1 DEF Shapes, Shaped
  <2>3. CopyInv'
    BY <1>1, <2>1, <2>2 DEF CopyInv, Copying, Installing, Fragment
  <2>4. ReconcileInv'
    BY <2>1 DEF ReconcileInv
  <2>5. QED
    BY <1>1, <2>1, <2>3, <2>4, InstallContinues DEF Installing, Copying
<1>4. CASE CopyRouting
  <2>1. /\ pc = "copy-05" /\ pc' = "reconcile"
        /\ config' = [config EXCEPT !.routing = fragments["05_routing"], !.rule = NoRule]
    BY <1>4 DEF CopyRouting, Copied
  <2>2. /\ config'.routing = fragments["05_routing"] /\ config'.rule = NoRule
        /\ config'.inbounds = config.inbounds /\ config'.outbounds = config.outbounds
    BY <2>1 DEF Shapes, Shaped
  <2>3. CopyInv'
    BY <1>1, <2>1, <2>2 DEF CopyInv, Copying, Installing, Reconciling, Fragment
  <2>4. ReconcileInv'
    BY <2>1, <2>2 DEF ReconcileInv, Managed
  <2>5. QED
    BY <1>1, <2>1, <2>3, <2>4, InstallContinues DEF Reconciling
<1>5. QED
  BY <1>2, <1>3, <1>4

(* An installation ends whole, or says that it did not.                     *)
LEMMA InstallEnds ==
  ASSUME Shapes, Progress, CopyInit \/ Installed \/ InstallFails
  PROVE  Progress'
<1>1. /\ pc \in Installing /\ exit = "none" /\ CopyInv /\ ReconcileInv
      /\ UNCHANGED <<state, pack, job, fragments>>
      /\ pc \notin Copying => config' = config
  BY DEF CopyInit, Installed, InstallFails, Installing, Copying, GoTo, End, Spoil, Files, quiet,
         CopyCut, profileFiles, Shapes, Progress
<1>2. CASE CopyInit
  <2>1. pc = "copy-init" /\ pc' = "install-test" /\ exit' = exit /\ job.installs
        /\ config' = config
    BY <1>1, <1>2 DEF CopyInit, GoTo, CopyInv, Files
  <2>2. CopyInv'
    BY <1>1, <2>1, CopyKept DEF Reconciling, Copying, Installing
  <2>3. ReconcileInv'
    BY <1>1, <2>1 DEF ReconcileInv, Asked, Expand
  <2>4. QED
    BY <1>1, <2>1, <2>2, <2>3, InstallContinues DEF Installing
<1>3. CASE Installed
  <2>1. pc = "install-test" /\ pc' = "idle" /\ exit' = "installed" /\ config' = config
    BY <1>3 DEF Installed, Files
  <2>2. (JobInv /\ ApplyInv /\ CopyInv /\ ReconcileInv)'
    BY <2>1 DEF JobInv, ApplyInv, CopyInv, ReconcileInv, Applying, Undoing, Ahead, Behind,
                Reconciling, Copying, Installing
  <2>3. Managed(pack, config, state) /\ Asked
    BY <1>1, <2>1 DEF ReconcileInv
  <2>4. Recognizable'
    BY <1>1, <2>1, <2>3 DEF Recognizable, Managed
  <2>5. job.installs => (job.set # None =>
          \A s \in {config.inbounds, config.outbounds, config.routing} : s = job.set)
    BY <1>1, <2>1 DEF CopyInv, Installing, Copying
  <2>6. job.installs
    BY <1>1 DEF CopyInv
  <2>7. InstalledWhole'
    BY <1>1, <2>1, <2>3, <2>5, <2>6 DEF InstalledWhole, Asked, Expand
  <2>8. (AllOrNothing /\ AppliedInForce)'
    BY <2>1 DEF AllOrNothing, AppliedInForce
  <2>9. QED
    BY <2>2, <2>4, <2>7, <2>8 DEF Progress, EndInv
<1>4. CASE InstallFails /\ pc \in Copying
  BY <1>4, Stops DEF InstallFails, Spoil
<1>5. CASE InstallFails /\ pc \notin Copying
  <2>1. /\ pc \in {"copy-init", "install-test"} /\ pc' = "idle" /\ exit' = "incomplete"
        /\ config' = config
    BY <1>1, <1>5 DEF InstallFails, End, Installing
  <2>2. QED
    BY <1>1, <2>1, Stops DEF ReconcileInv
<1>6. QED
  BY <1>2, <1>3, <1>4, <1>5

-----------------------------------------------------------------------------
(* Around a command *)

(* A kill that does not come between two files finds the managed rule.     *)
LEMMA KillStep ==
  ASSUME Shapes, Progress, Kill
  PROVE  Progress'
<1> USE DEF Progress
<1>1. /\ pc # "idle" /\ pc' = "idle" /\ exit' = "killed" /\ UNCHANGED <<state, pack>>
      /\ Between => sound' = FALSE
      /\ ~Between => sound' = sound /\ config' = config
  BY DEF Kill, Spoil, End, quiet, Between, CopyCut, Copying
<1>2. CASE Between
  BY <1>1, <1>2, Stops
<1>3. CASE ~Between /\ pc \in Applying \cup Undoing
  <2>1. config.rule = job.was.rule /\ pc \in Applying \cup Undoing
    BY <1>3 DEF Between
  <2>2. /\ Shaped(job.was) /\ Managed(pack, job.was, job.kept) /\ (sound => state = job.kept)
    BY <2>1 DEF JobInv
  <2>3. CASE pc \in Behind \cup {"undo", "remember"}
    BY <2>1, <2>2, <2>3, <1>1, <1>3, OtherRule, Stops DEF ApplyInv
  <2>4. CASE pc \in Ahead \cup (Undoing \ {"undo"})
    <3>1. config = job.was
      BY <2>4 DEF ApplyInv
    <3>2. QED
      BY <1>1, <1>3, <2>2, <3>1, Stops
  <2>5. QED
    BY <2>1, <2>3, <2>4 DEF Applying, Undoing, Ahead, Behind
<1>4. CASE ~Between /\ pc \notin Applying \cup Undoing
  <2>1. sound => Managed(pack, config, state)
    <3>1. CASE pc = "reconcile"
      BY <3>1 DEF ReconcileInv
    <3>2. CASE pc \in {"rec-stage", "rec-publish"}
      BY <3>2 DEF ReconcileInv, Managed
    <3>3. CASE pc = "rec-test"
      <4>1. state # Missing /\ config.rule = RuleOf(config.inbounds, Expand(state.text))
        BY <3>3 DEF ReconcileInv
      <4>2. QED
        BY <4>1, AskedManaged
    <3>4. CASE pc \in {"copy-init", "install-test"}
      BY <3>4 DEF ReconcileInv
    <3>5. CASE pc \notin Reconciling \cup Installing
      BY <1>1, <1>4, <3>5 DEF Shapes, Labels
    <3>6. QED
      BY <1>4, <3>1, <3>2, <3>3, <3>4, <3>5 DEF Reconciling, Installing, Between
  <2>2. QED
    BY <1>1, <1>4, <2>1, Stops
<1>5. QED
  BY <1>2, <1>3, <1>4

(* Between two commands the router may restart, the init script may be     *)
(* enabled, the packs may change, and the generator may run.               *)
LEMMA IdleSteps ==
  ASSUME Shapes, Progress,
         \/ Reboot \/ EnableInit \/ UpdatePacks
         \/ \E req \in Requests : ApplyRefused(req)
  PROVE  Progress'
<1>1. /\ pc = "idle" /\ pc' = "idle" /\ exit' \in {"none", "refused"}
      /\ UNCHANGED <<config, state>>
      /\ sound' => sound /\ pack' = pack
  BY DEF Reboot, EnableInit, UpdatePacks, ApplyRefused, Files, quiet
<1>2. sound => Managed(pack, config, state)
  BY <1>1 DEF Progress, EndInv, Recognizable
<1>3. QED
  BY <1>1, <1>2, Stops

(* A step of neither routing nor profiles keeps the progress of the job.    *)
LEMMA RestsStep ==
  ASSUME Progress, UNCHANGED routing, pc = "idle" \/ UNCHANGED profileFiles
  PROVE  Progress'
<1>1. UNCHANGED <<config, state, pack, live, init, pc, job, exit, sound>>
  BY DEF routing
<1>2. (JobInv /\ ApplyInv /\ ReconcileInv)'
  BY <1>1 DEF Progress, JobInv, ApplyInv, ReconcileInv, Managed, Asked, Expand
<1>3. CopyInv'
  BY <1>1 DEF Progress, CopyInv, Reconciling, Installing, Copying, profileFiles
<1>4. EndInv'
  BY <1>1 DEF Progress, EndInv, Recognizable, Managed, AllOrNothing, AppliedInForce,
              InstalledWhole, Expand
<1>5. QED
  BY <1>2, <1>3, <1>4 DEF Progress

(* Only the installer replaces a direct rule that is not the managed one.  *)
LEMMA ForeignStep ==
  ASSUME IInv, [Next]_vars, config.rule = Foreign, config'.rule # Foreign
  PROVE  pc = "copy-05"
<1> USE DEF IInv, Progress
<1>1. CASE CopyRouting
  BY <1>1 DEF CopyRouting
<1>2. CASE config' = config
  BY <1>2
<1>3. CASE Publish \/ PublishUnsynced
  <2>1. config = job.was /\ Managed(pack, job.was, job.kept)
    BY <1>3 DEF Publish, PublishUnsynced, ApplyInv, JobInv, Ahead, Applying
  <2>2. QED
    BY <2>1, RuleFacts DEF Managed
<1>4. CASE (UndoPublish \/ UndoFails) /\ pc = "undo"
  <2>1. /\ config = [job.was EXCEPT !.rule = job.rule] /\ Shaped(job.was)
        /\ job.rule = RuleOf(job.was.inbounds, Expand(job.desired))
    BY <1>4 DEF ApplyInv, JobInv, Undoing
  <2>2. QED
    BY <2>1, OtherRule, RuleFacts
<1>5. CASE UndoFails /\ pc # "undo"
  BY <1>2, <1>5 DEF UndoFails
<1>6. CASE pc = "rec-publish"
  BY <1>6, RuleFacts DEF ReconcileInv
<1>7. CASE CopyInbounds \/ CopyOutbounds
  BY <1>7 DEF CopyInbounds, CopyOutbounds, Shapes, Shaped
<1>12. CASE Kill \/ InstallFails
  <2>1. config' \in CopyCut
    BY <1>12 DEF Kill, InstallFails
  <2>2. pc # "copy-05" => config'.rule = config.rule
    BY <2>1 DEF CopyCut, Shapes, Shaped
  <2>3. QED
    BY <2>2
<1>8. CASE ApplySteps
  BY <1>2, <1>3, <1>4, <1>5, <1>8 DEF ApplySteps, Files, Backup, Stage, NotPublished, Test,
    TestFails, Restart, RestartFails, Verify, VerifyFails, Remember, RememberFails,
    RememberUnsynced, UndoPublish, UndoTest, UndoRestart, UndoVerify
<1>9. CASE InstallSteps
  BY <1>1, <1>2, <1>6, <1>7, <1>9, <1>12 DEF InstallSteps, Files, Reconcile, ReconcileNoop,
    ReconcileRule, ReconcileRefused, ReconcileStage, ReconcilePublish, ReconcileTest,
    ReconcileFails, Install, CopyInit, Installed
<1>10. CASE Mutations \/ Generating \/ Reboot \/ EnableInit \/ UpdatePacks \/ UNCHANGED vars
  BY <1>2, <1>10 DEF Mutations, Apply, ApplyRefused, Generating, Reboot, EnableInit,
    UpdatePacks, vars, routing, Files
<1>11. QED
  BY <1>8, <1>9, <1>10, <1>12 DEF Next

-----------------------------------------------------------------------------
(* Theorems *)

(* Every step keeps the inductive invariant.                                *)
LEMMA NextInv ==
  ASSUME IInv, [Next]_vars
  PROVE  IInv'
<1> USE DEF IInv
<1>1. Shapes'
  BY ShapesStep DEF Progress
<1>2. GeneratorInv'
  BY GeneratorAlone
<1>5. Legible'
  BY LegibleStep DEF Progress
<1>3. Progress'
  <2>1. CASE Mutations
    BY <2>1, ApplyStep, IdleSteps DEF Mutations
  <2>2. CASE ApplySteps
    BY <2>2, AheadSteps, BehindSteps, RememberSteps, UndoSteps DEF ApplySteps
  <2>3. CASE InstallSteps
    BY <2>3, ReconcileBegins, ReconcileSteps, InstallBegins, CopySteps, InstallEnds DEF InstallSteps
  <2>4. CASE Generating \/ UNCHANGED vars
    BY <2>4, RestsStep DEF Generating, vars
  <2>5. CASE Kill \/ Reboot \/ EnableInit \/ UpdatePacks
    BY <2>5, KillStep, IdleSteps
  <2>6. QED
    BY <2>1, <2>2, <2>3, <2>4, <2>5 DEF Next
<1>4. QED
  BY <1>1, <1>2, <1>3, <1>5

(* The invariant the theorems below rest on.                               *)
THEOREM RoutingInvariant == Spec => []IInv
<1>1. IInv /\ [Next]_vars => IInv'
  BY NextInv
<1>2. QED
  BY <1>1, InitInv, PTL DEF Spec

(* A manifest beside the fragments describes a whole set                   *)
(* (generate-xray-profiles.py, main).                                      *)
THEOREM ManifestIsWhole == Spec => []ManifestWhole
<1>1. IInv => ManifestWhole
  BY DEF IInv, GeneratorInv
<1>2. QED
  BY <1>1, RoutingInvariant, PTL

(* What the code itself wrote a later plan recognizes                      *)
(* (routerkit_routing.py, build_plan), unless one of the things that       *)
(* Manageable lists came between.                                          *)
THEOREM RoutingManageable == Spec => []Manageable
<1>1. IInv => Manageable
  BY DEF IInv, Progress, EndInv, Legible, Recognizable, Managed, Manageable, Current, Expand
<1>2. QED
  BY <1>1, RoutingInvariant, PTL

(* An apply that fails, and whose rollback is not called unproven, has     *)
(* changed nothing but the one file that it put in place without being     *)
(* able to synchronize its directory (routerkit_routing.py, apply_plan).   *)
THEOREM RoutingAllOrNothing == Spec => []AllOrNothing
<1>1. IInv => AllOrNothing
  BY DEF IInv, Progress, EndInv
<1>2. QED
  BY <1>1, RoutingInvariant, PTL

(* An apply that ends well runs what it published and what the state file  *)
(* asks for (routerkit_routing.py, apply_plan).                            *)
THEOREM RoutingInForce == Spec => []AppliedInForce
<1>1. IInv => AppliedInForce
  BY DEF IInv, Progress, EndInv
<1>2. QED
  BY <1>1, RoutingInvariant, PTL

(* An installation that ends well has copied one profile set and kept the  *)
(* overrides (install-xray-direct.sh).                                     *)
THEOREM InstallationWhole == Spec => []InstalledWhole
<1>1. IInv => InstalledWhole
  BY DEF IInv, Progress, EndInv
<1>2. QED
  BY <1>1, RoutingInvariant, PTL

(* A direct rule that is not the managed one stays where it is, except for *)
(* the installer (routerkit_routing.py, build_plan and reconcile).         *)
THEOREM ForeignRuleKept == Spec => ForeignKept
<1>1. IInv /\ [Next]_vars
        => [config.rule = Foreign /\ config'.rule # Foreign => pc = "copy-05"]_vars
  BY ForeignStep
<1>2. QED
  BY <1>1, RoutingInvariant, PTL DEF Spec, ForeignKept
=============================================================================
