------------------------------- MODULE Labels -------------------------------
(***************************************************************************)
(* How one visited policy state gets its labels: imported from the shadow  *)
(* traffic without any, labelled by a teacher model, adjudicated by        *)
(* annotations, and mixed into a training corpus.  Every command reads one *)
(* dataset and writes another, so that all versions of the record stay     *)
(* about and any of them may be used next.                                 *)
(*                                                                         *)
(* A target stands for where it came from; two targets are equal when they *)
(* came from the same place.                                               *)
(***************************************************************************)
EXTENDS Integers, Sequences, FiniteSets

CONSTANTS
  Unlabelled,      \* no target
  Questions,       \* the questions of the record
  Untrusted,       \* UNTRUSTED_LABEL_SOURCES
  MaxVersions      \* bound on the datasets written

ASSUME LabelsAssumption ==
  /\ MaxVersions \in Nat
  /\ "trajectory_adjudication" \notin Untrusted /\ "synthetic_policy_verifier" \notin Untrusted

Origins  == {"prediction", "verifier", "teacher", "annotation"}
Statuses == {"", "unlabeled", "partially_adjudicated", "adjudicated"}
Sources  == Untrusted \cup {"", "trajectory_adjudication", "synthetic_policy_verifier"}

Versions ==
  [shadow : BOOLEAN, targets : [Questions -> Origins \cup {Unlabelled}],
   status : Statuses, source : Sources]

VARIABLES
  store,     \* the versions some dataset holds
  mixed      \* the records of the last mix, and the overrides it was given

labelVars == <<store, mixed>>

NoMix == [records |-> <<>>, unlabelled |-> FALSE, conflicting |-> FALSE]

LabelsInit == store = {} /\ mixed = NoMix

Emit(version) ==
  /\ version \notin store
  /\ Cardinality(store) < MaxVersions
  /\ store' = store \cup {version}
  /\ UNCHANGED mixed

(* shadow_import, and review of a replayed row: predictions stay metadata. *)
ShadowRecord ==
  [shadow |-> TRUE, targets |-> [q \in Questions |-> Unlabelled], status |-> "unlabeled", source |-> ""]

Import == Emit(ShadowRecord)

SynthRecord ==
  [shadow |-> FALSE, targets |-> [q \in Questions |-> "verifier"], status |-> "", source |-> "synthetic_policy_verifier"]

Synthesize == Emit(SynthRecord)

(* A dataset from elsewhere, with predictions of some of the questions. *)
Receive ==
  \E source \in Untrusted, answered \in (SUBSET Questions) \ {{}} :
    Emit([shadow |-> FALSE, status |-> "", source |-> source,
          targets |-> [q \in Questions |-> IF q \in answered THEN "prediction" ELSE Unlabelled]])

(* The teacher answers every question; the metadata are the record's. *)
Taught(version) == [version EXCEPT !.targets = [q \in Questions |-> "teacher"]]

Teach == \E version \in store : Emit(Taught(version))

Labelled(version) == {q \in Questions : version.targets[q] # Unlabelled}

Adjudicable(version, asked, replace) == replace \/ asked \cap Labelled(version) = {}

Adjudicated(version, asked) ==
  LET covered == asked \cup Labelled(version)
  IN [version EXCEPT
       !.targets = [q \in Questions |-> IF q \in asked THEN "annotation" ELSE @[q]],
       !.status  = IF covered = Questions THEN "adjudicated" ELSE "partially_adjudicated",
       !.source  = "trajectory_adjudication"]

Adjudicate ==
  \E version \in store, asked \in (SUBSET Questions) \ {{}}, replace \in BOOLEAN :
    /\ Adjudicable(version, asked, replace)
    /\ Emit(Adjudicated(version, asked))

(* mutant: the adjudication status of a labelled record is not looked at *)
MixableAnyStatus(version, unlabelled) ==
  IF Labelled(version) = {} THEN unlabelled ELSE version.source \notin Untrusted

Mixable(version, unlabelled) ==
  IF Labelled(version) = {} THEN unlabelled
  ELSE /\ version.status = "unlabeled" => unlabelled
       /\ version.source \notin Untrusted

(* Of exact duplicates the one read first is kept. *)
Merge(first, second) ==
  IF first.targets = second.targets THEN <<first>> ELSE <<first, second>>

Mix ==
  \E first \in store, second \in store, unlabelled \in BOOLEAN, conflicting \in BOOLEAN :
    /\ Mixable(first, unlabelled) /\ Mixable(second, unlabelled)
    /\ first.targets # second.targets => conflicting
    /\ mixed' = [records |-> Merge(first, second), unlabelled |-> unlabelled, conflicting |-> conflicting]
    /\ UNCHANGED store

LabelsNext == Import \/ Synthesize \/ Receive \/ Teach \/ Adjudicate \/ Mix

LabelsSpec == LabelsInit /\ [][LabelsNext]_labelVars
---------------------------------------------------------------------------
LabelsTypeOK ==
  /\ store \subseteq Versions
  /\ mixed.records \in Seq(Versions) /\ mixed.unlabelled \in BOOLEAN /\ mixed.conflicting \in BOOLEAN

(* "my-jev-adjudicate remains the only bridge": in a mix made without      *)
(* --allow-unlabeled, a record of the shadow traffic has been adjudicated, *)
(* however many other commands it went through before and after.           *)
OnlyBridge ==
  ~mixed.unlabelled =>
    \A i \in DOMAIN mixed.records :
      mixed.records[i].shadow => mixed.records[i].source = "trajectory_adjudication"

=============================================================================
