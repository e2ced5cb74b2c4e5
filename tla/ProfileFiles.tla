---------------------------- MODULE ProfileFiles ----------------------------
(***************************************************************************)
(* The directory the profile generator writes for the installer            *)
(* (scripts/generate-xray-profiles.py, main): three Xray fragments and the *)
(* local endpoint manifest.  A profile set is the version of the operator's*)
(* profiles file and subscription that the fragments were built from.      *)
(* The generator may be killed between two steps.                          *)
(***************************************************************************)
EXTENDS PrivateIO, Naturals

CONSTANTS
  ProfileSet,
  None,       \* the generator is not running
  Torn,       \* the content of a file whose write was cut short
  Built,      \* the sets earlier runs may have left whole, or Missing
  MaxBuilds   \* bound on the generator's runs

ASSUME ProfilesAssumption ==
  /\ None \notin ProfileSet /\ Missing \notin ProfileSet
  /\ Torn \notin ProfileSet \cup {Missing}
  /\ Missing \notin Entries(ProfileSet)
  /\ Built \subseteq ProfileSet \cup {Missing} /\ MaxBuilds \in Nat

VARIABLES
  fragments,  \* file name -> the set it was built from, Torn or Missing
  manifest,   \* the manifest's entry
  building,   \* the set being generated
  step,       \* the generator's next step
  builds      \* runs begun

profileFiles == <<fragments, manifest, building, step, builds>>

Content == ProfileSet \cup {Torn}

Fragment == {"03_inbounds", "04_outbounds", "05_routing"}
Position == [f \in Fragment |->
               IF f = "03_inbounds" THEN 1 ELSE IF f = "04_outbounds" THEN 2 ELSE 3]

ProfilesType ==
  /\ fragments \in [Fragment -> Content \cup {Missing}]
  /\ manifest \in Entries(ProfileSet) \cup {Missing}
  /\ building \in ProfileSet \cup {None}
  /\ step \in 0..4 /\ builds \in 0..MaxBuilds

ProfilesInit ==
  /\ \E b \in Built : /\ fragments = [f \in Fragment |-> b]
                     /\ manifest = IF b = Missing THEN Missing ELSE Fresh(b)
  /\ building = None /\ step = 0 /\ builds = 0

Begins == builds < MaxBuilds /\ builds' = builds + 1
Stop == building' = None /\ step' = 0

(* Mutant: the old manifest stays until the new one replaces it.           *)
GenerateOver(g) ==
  /\ building = None /\ Begins
  /\ building' = g /\ step' = 1
  /\ UNCHANGED <<fragments, manifest>>

(* The profile names are valid and the manifest of the run before, if      *)
(* there is one, is retired before anything else is written.  Only a       *)
(* recognized manifest is removed; a removal the directory could not be    *)
(* synchronized for ends the run too.                                      *)
Generate(g) ==
  /\ building = None /\ Begins
  /\ manifest = Missing \/ Private(manifest)
  /\ manifest' = Missing
  /\ building' = g /\ step' = 1
  /\ UNCHANGED fragments

RetireUnsynced ==
  /\ building = None /\ Begins /\ Private(manifest)
  /\ manifest' = Missing
  /\ UNCHANGED <<fragments, building, step>>

(* Every profile has a supported node: the fragments are written in order, *)
(* in place.  A write cut short ends the run and leaves a file that is     *)
(* there and cannot be read.                                               *)
WriteFragment(f) ==
  /\ building # None /\ step = Position[f]
  /\ fragments' = [fragments EXCEPT ![f] = building]
  /\ step' = step + 1
  /\ UNCHANGED <<manifest, building, builds>>

WriteFails(f) ==
  /\ building # None /\ step = Position[f]
  /\ fragments' = [fragments EXCEPT ![f] = Torn]
  /\ Stop
  /\ UNCHANGED <<manifest, builds>>

(* A subscription without a supported node, or a kill.                     *)
GenerationEnds ==
  /\ building # None
  /\ Stop
  /\ UNCHANGED <<fragments, manifest, builds>>

(* The manifest is published last.                                         *)
PublishManifest ==
  /\ building # None /\ step = 4
  /\ \E p \in Publications(manifest, building, ProfileSet) : manifest' = p.entry
  /\ Stop
  /\ UNCHANGED <<fragments, builds>>

Generator ==
  \/ \E g \in ProfileSet : Generate(g)
  \/ RetireUnsynced
  \/ \E f \in Fragment : WriteFragment(f) \/ WriteFails(f)
  \/ GenerationEnds
  \/ PublishManifest

(* A manifest that is there describes a whole set: the three fragments     *)
(* beside it were built with it, in one run that reached its end           *)
(* (retire_stale_local_endpoint_manifest before, publication after).       *)
ManifestWhole == manifest # Missing => \A f \in Fragment : fragments[f] = manifest.text
=============================================================================
