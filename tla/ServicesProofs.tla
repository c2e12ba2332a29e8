--------------------------- MODULE ServicesProofs ---------------------------
(***************************************************************************)
(* Proofs about modules Labels, Datasets and Training, for any questions,  *)
(* runs, corpora and epochs, and about all the programs that work on files *)
(* side by side (MCServices).                                              *)
(***************************************************************************)
EXTENDS MCServices, HarnessProbeProofs, BonsaiCaptureProofs, FiniteSetTheorems, SequenceTheorems
---------------------------------------------------------------------------
(* Labels: adjudication is the only way of shadow traffic into a mix *)

(* Whatever was done to a version of a shadow record, it is marked         *)
(* unlabelled until it is adjudicated, though it may have targets.         *)
MarkedUntilAdjudicated ==
  \A v \in store :
    v.shadow /\ v.source # "trajectory_adjudication" => v.status = "unlabeled"

BridgeInv == LabelsTypeOK /\ MarkedUntilAdjudicated /\ OnlyBridge

(* A command that writes one more version v leaves the mix alone.          *)
LEMMA EmitKeeps ==
  ASSUME BridgeInv, NEW v \in Versions, Emit(v),
         v.shadow /\ v.source # "trajectory_adjudication" => v.status = "unlabeled"
  PROVE  BridgeInv'
<1>1. store' = store \cup {v} /\ UNCHANGED mixed
  BY DEF Emit
<1>2. LabelsTypeOK'
  BY <1>1 DEF BridgeInv, LabelsTypeOK
<1>3. MarkedUntilAdjudicated'
  BY <1>1 DEF BridgeInv, MarkedUntilAdjudicated
<1>4. OnlyBridge'
  BY <1>1 DEF BridgeInv, OnlyBridge
<1> QED
  BY <1>2, <1>3, <1>4 DEF BridgeInv

(* Without --allow-unlabeled a shadow record is mixed only adjudicated.    *)
LEMMA MixableIsAdjudicated ==
  ASSUME MarkedUntilAdjudicated, NEW v \in store, Mixable(v, FALSE), v.shadow
  PROVE  v.source = "trajectory_adjudication"
BY DEF MarkedUntilAdjudicated, Mixable

LEMMA BridgeStep == BridgeInv /\ [LabelsNext]_labelVars => BridgeInv'
<1> SUFFICES ASSUME BridgeInv, [LabelsNext]_labelVars PROVE BridgeInv'
  OBVIOUS
<1>1. CASE Import
  <2>1. ShadowRecord \in Versions
    BY DEF ShadowRecord, Versions, Statuses, Sources
  <2> QED
    BY <1>1, <2>1, EmitKeeps DEF Import, ShadowRecord
<1>2. CASE Synthesize
  <2>1. SynthRecord \in Versions
    BY DEF SynthRecord, Versions, Statuses, Sources, Origins
  <2> QED
    BY <1>2, <2>1, EmitKeeps DEF Synthesize, SynthRecord
<1>3. CASE Receive
  <2> DEFINE Received(source, answered) ==
        [shadow |-> FALSE, status |-> "", source |-> source,
         targets |-> [q \in Questions |-> IF q \in answered THEN "prediction" ELSE Unlabelled]]
  <2>1. PICK source \in Untrusted, answered \in SUBSET Questions : Emit(Received(source, answered))
    BY <1>3 DEF Receive
  <2>2. Received(source, answered) \in Versions
    BY DEF Versions, Statuses, Sources, Origins
  <2>3. ~Received(source, answered).shadow
    OBVIOUS
  <2> HIDE DEF Received
  <2> QED
    BY <2>1, <2>2, <2>3, EmitKeeps
<1>4. CASE Teach
  <2>1. PICK v \in store : Emit(Taught(v))
    BY <1>4 DEF Teach
  <2>2. v \in Versions
    BY DEF BridgeInv, LabelsTypeOK
  <2>3. Taught(v) \in Versions
    BY <2>2 DEF Taught, Versions, Origins
  <2>4. /\ Taught(v).shadow = v.shadow /\ Taught(v).source = v.source
        /\ Taught(v).status = v.status
    BY <2>2 DEF Taught, Versions
  <2> QED
    BY <2>1, <2>3, <2>4, EmitKeeps DEF BridgeInv, MarkedUntilAdjudicated
<1>5. CASE Adjudicate
  <2>1. PICK v \in store, asked \in SUBSET Questions : Emit(Adjudicated(v, asked))
    BY <1>5 DEF Adjudicate
  <2>2. v \in Versions
    BY DEF BridgeInv, LabelsTypeOK
  <2>3. Adjudicated(v, asked) \in Versions
    BY <2>2 DEF Adjudicated, Versions, Origins, Statuses, Sources
  <2>4. Adjudicated(v, asked).source = "trajectory_adjudication"
    BY <2>2 DEF Adjudicated, Versions
  <2> QED
    BY <2>1, <2>3, <2>4, EmitKeeps
<1>6. CASE Mix
  <2>1. PICK first \in store, second \in store, unlabelled \in BOOLEAN, conflicting \in BOOLEAN :
          /\ Mixable(first, unlabelled) /\ Mixable(second, unlabelled)
          /\ mixed' = [records |-> Merge(first, second), unlabelled |-> unlabelled,
                       conflicting |-> conflicting]
          /\ UNCHANGED store
    BY <1>6 DEF Mix
  <2>2. /\ mixed'.records \in {<<first>>, <<first, second>>}
        /\ mixed'.unlabelled = unlabelled /\ mixed'.conflicting = conflicting
    BY <2>1 DEF Merge
  <2>3. LabelsTypeOK'
    <3>1. first \in Versions /\ second \in Versions
      BY DEF BridgeInv, LabelsTypeOK
    <3>2. mixed'.records \in Seq(Versions)
      <4>1. <<first>> \in Seq(Versions)
        BY <3>1
      <4>2. <<first, second>> \in Seq(Versions)
        BY <3>1
      <4> QED
        BY <4>1, <4>2, <2>2
    <3> QED
      BY <2>1, <2>2, <3>2 DEF BridgeInv, LabelsTypeOK
  <2>4. MarkedUntilAdjudicated'
    BY <2>1 DEF BridgeInv, MarkedUntilAdjudicated
  <2>5. \A i \in DOMAIN mixed'.records : mixed'.records[i] \in {first, second}
    BY <2>2
  <2>6. OnlyBridge'
    <3> SUFFICES ASSUME ~unlabelled, NEW i \in DOMAIN mixed'.records, mixed'.records[i].shadow
                 PROVE  mixed'.records[i].source = "trajectory_adjudication"
      BY <2>2 DEF OnlyBridge
    <3> QED
      BY <2>1, <2>5, MixableIsAdjudicated DEF BridgeInv
  <2> QED
    BY <2>3, <2>4, <2>6 DEF BridgeInv
<1>7. CASE UNCHANGED labelVars
  BY <1>7 DEF labelVars, BridgeInv, LabelsTypeOK, MarkedUntilAdjudicated, OnlyBridge
<1> QED
  BY <1>1, <1>2, <1>3, <1>4, <1>5, <1>6, <1>7 DEF LabelsNext

(* "my-jev-adjudicate remains the only bridge": by any sequence of imports, *)
(* teachings, adjudications and mixes, a shadow record gets into a mix made *)
(* without --allow-unlabeled only adjudicated.                              *)
THEOREM AdjudicationIsTheOnlyBridge == LabelsSpec => []OnlyBridge
<1>1. LabelsInit => BridgeInv
  BY DEF LabelsInit, NoMix, BridgeInv, LabelsTypeOK, MarkedUntilAdjudicated, OnlyBridge
<1>2. BridgeInv => OnlyBridge
  BY DEF BridgeInv
<1> QED
  BY <1>1, <1>2, BridgeStep, PTL DEF LabelsSpec

(* Every version in the store and in the mix is a record whose targets,    *)
(* status and source are ones that some command writes.                    *)
THEOREM LabelsTypes == LabelsSpec => []LabelsTypeOK
<1>1. LabelsInit => BridgeInv
  BY DEF LabelsInit, NoMix, BridgeInv, LabelsTypeOK, MarkedUntilAdjudicated, OnlyBridge
<1>2. BridgeInv => LabelsTypeOK
  BY DEF BridgeInv
<1> QED
  BY <1>1, <1>2, BridgeStep, PTL DEF LabelsSpec
---------------------------------------------------------------------------
(* Datasets: the manifest of prepare *)

PreparedManifest == <<"prepare", "manifest">>
Data     == Prepared \ {PreparedManifest}
Ops      == {"dump", "hash", "jot", "seal"}

CommandFields(c) ==
  c = [program |-> c.program, pc |-> c.pc, remove |-> c.remove, plan |-> c.plan, hashes |-> c.hashes]

(* The rest of a prepare plan seals the manifest at the very end, and      *)
(* writes no file that it has hashed.                                      *)
Orderly(plan) ==
  /\ \A i \in DOMAIN plan :
       /\ plan[i].op # "jot" /\ plan[i].file \in Prepared
       /\ plan[i].file = PreparedManifest <=> plan[i].op = "seal"
       /\ plan[i].op = "seal" => i = Len(plan)
  /\ \A i, j \in DOMAIN plan :
       i < j /\ plan[i].op = "hash" /\ plan[j].op = "dump" => plan[i].file # plan[j].file

(* The hashes taken by a prepare run are those of the files that lie in    *)
(* the directory, which has no manifest yet.                               *)
HashesHold(c, dir) ==
  /\ c.plan # <<>> => dir[PreparedManifest] = NoFile
  /\ DOMAIN c.hashes \subseteq Data
  /\ \A f \in DOMAIN c.hashes : dir[f] = c.hashes[f]
  /\ \A i \in DOMAIN c.plan : c.plan[i].op = "dump" => c.plan[i].file \notin DOMAIN c.hashes

Underway(c, dir) ==
  /\ c.plan \in Seq([op : Ops, file : Names])
  /\ \A i \in DOMAIN c.plan : c.plan[i].file[1] = c.program
  /\ c.program = "prepare" => Orderly(c.plan)
  /\ c.program = "prepare" /\ c.pc = "writing" => HashesHold(c, dir)
  /\ c.pc = "removing" =>
       /\ c.program = "prepare" /\ DOMAIN c.hashes = {}
       /\ c.remove \in Seq(Prepared)
       /\ \A f \in Prepared : dir[f] # NoFile => \E i \in DOMAIN c.remove : c.remove[i] = f

ManifestHolds(dir) ==
  dir[PreparedManifest] # NoFile =>
    /\ DOMAIN dir[PreparedManifest].hashes \subseteq Data
    /\ \A f \in DOMAIN dir[PreparedManifest].hashes : dir[f] \in {NoFile, dir[PreparedManifest].hashes[f]}

DatasetsInv ==
  /\ DOMAIN directory = Names /\ DOMAIN command = Runs
  /\ \A r \in Runs : CommandFields(command[r])
  /\ \A q, r \in Runs : Active(q) /\ Active(r) => q = r
  /\ \A r \in Runs : Active(r) => Underway(command[r], directory)
  /\ ManifestHolds(directory)

LEMMA PreparedFiles ==
  /\ Prepared = {<<"prepare", "source">>, <<"prepare", "train">>, <<"prepare", "validation">>,
                 <<"prepare", "calibration">>, <<"prepare", "test">>, PreparedManifest}
  /\ PreparedManifest \in Prepared /\ \A f \in Prepared : f[1] = "prepare"
<1>1. Prepared = {Removable[i] : i \in 1 .. 6}
  BY DEF Prepared, Removable, ToSet
<1>2. Prepared = {<<"prepare", "source">>, <<"prepare", "train">>, <<"prepare", "validation">>,
                  <<"prepare", "calibration">>, <<"prepare", "test">>, PreparedManifest}
  BY <1>1 DEF Removable, PreparedManifest
<1> QED
  BY <1>2 DEF PreparedManifest

LEMMA RemovableIsPrepared ==
  Removable \in Seq(Prepared) /\ \A f \in Prepared : \E i \in DOMAIN Removable : Removable[i] = f
<1>1. PICK n \in Nat : n = 6
  OBVIOUS
<1>2. DOMAIN Removable = 1 .. n /\ Prepared = {Removable[i] : i \in 1 .. n}
  BY <1>1 DEF Removable, Prepared, ToSet
<1>3. Removable \in [1 .. n -> Prepared]
  BY <1>1, <1>2 DEF Removable
<1>4. Removable \in Seq(Prepared)
  <2>1. \A S : \A q \in [1 .. n -> S] : q \in Seq(S)
    OBVIOUS
  <2> QED
    BY <1>3, <2>1
<1> QED
  BY <1>2, <1>4

LEMMA ManifestNamed == Prepared \subseteq Names /\ PreparedManifest \in Names
<1>1. \A i \in DOMAIN PreparePlan : PreparePlan[i].file \in Names
  <2>1. Plan("prepare") = PreparePlan
    BY Zenon DEF Plan
  <2> QED
    BY <2>1, ProgramsAssumption DEF Names, Output
<1>2. DOMAIN PreparePlan = 1 .. 11
  BY DEF PreparePlan
<1>3. /\ PreparePlan[1].file = <<"prepare", "source">> /\ PreparePlan[2].file = <<"prepare", "train">>
      /\ PreparePlan[4].file = <<"prepare", "validation">> /\ PreparePlan[6].file = <<"prepare", "calibration">>
      /\ PreparePlan[8].file = <<"prepare", "test">> /\ PreparePlan[11].file = PreparedManifest
  BY DEF PreparePlan, Dump, Hash, Seal, PreparedManifest
<1>4. {1, 2, 4, 6, 8, 11} \subseteq 1 .. 11
  OBVIOUS
<1> QED
  BY <1>1, <1>2, <1>3, <1>4, PreparedFiles

LEMMA PrepareIsOrderly == Orderly(PreparePlan)
<1> DEFINE p == PreparePlan
<1>1. DOMAIN p = 1 .. 11 /\ Len(p) = 11
  BY DEF PreparePlan
<1>2. /\ p[1] = Dump("prepare", "source")
      /\ p[2] = Dump("prepare", "train") /\ p[3] = Hash("prepare", "train")
      /\ p[4] = Dump("prepare", "validation") /\ p[5] = Hash("prepare", "validation")
      /\ p[6] = Dump("prepare", "calibration") /\ p[7] = Hash("prepare", "calibration")
      /\ p[8] = Dump("prepare", "test") /\ p[9] = Hash("prepare", "test")
      /\ p[10] = Hash("prepare", "source") /\ p[11] = Seal("prepare", "manifest")
  BY DEF PreparePlan
<1> HIDE DEF p
<1>3. \A i \in 1 .. 11 :
        /\ p[i].op # "jot" /\ p[i].file \in Prepared
        /\ p[i].file = PreparedManifest <=> p[i].op = "seal"
        /\ p[i].op = "seal" => i = 11
  BY <1>2, PreparedFiles DEF Dump, Hash, Seal, PreparedManifest
<1>4. \A i, j \in 1 .. 11 : i < j /\ p[i].op = "hash" /\ p[j].op = "dump" => p[i].file # p[j].file
  BY <1>2 DEF Dump, Hash, Seal
<1> QED
  BY <1>1, <1>3, <1>4 DEF Orderly, p

FileNames == {"source", "train", "validation", "calibration", "test", "manifest", "records", "composition"}

StepsOf(program) == [op : Ops, file : {program} \X FileNames]

LEMMA PlanSteps ==
  ASSUME NEW program \in Programs
  PROVE  /\ Plan(program) \in Seq([op : Ops, file : Names])
         /\ \A i \in DOMAIN Plan(program) : Plan(program)[i].file[1] = program
<1>0. \A d : \A f \in FileNames :
        /\ Dump(d, f) \in StepsOf(d) /\ Hash(d, f) \in StepsOf(d)
        /\ Jot(d, f) \in StepsOf(d) /\ Seal(d, f) \in StepsOf(d)
  BY DEF Dump, Hash, Jot, Seal, Ops, StepsOf, FileNames
<1>1. Plan(program) \in Seq(StepsOf(program))
  <2>1. CASE program = "prepare"
    <3>1. PreparePlan \in Seq(StepsOf("prepare"))
      BY <1>0 DEF FileNames, PreparePlan
    <3>2. Plan(program) = PreparePlan
      BY <2>1, Zenon DEF Plan
    <3> QED
      BY <2>1, <3>1, <3>2
  <2>2. CASE program = "split"
    <3>1. SplitPlan \in Seq(StepsOf("split"))
      BY <1>0 DEF FileNames, SplitPlan
    <3>2. Plan(program) = SplitPlan
      BY <2>2, Zenon DEF Plan
    <3> QED
      BY <2>2, <3>1, <3>2
  <2>3. CASE program = "mix"
    <3>1. MixPlan \in Seq(StepsOf("mix"))
      BY <1>0 DEF FileNames, MixPlan
    <3>2. Plan(program) = MixPlan
      BY <2>3, Zenon DEF Plan
    <3> QED
      BY <2>3, <3>1, <3>2
  <2>4. CASE program \in {"import", "adjudicate", "review"}
    <3>1. RecordsPlan(program) \in Seq(StepsOf(program))
      BY <1>0 DEF FileNames, RecordsPlan
    <3>2. Plan(program) = RecordsPlan(program)
      BY <2>4, Zenon DEF Plan
    <3> QED
      BY <2>4, <3>1, <3>2
  <2>5. CASE program = "label"
    <3>1. LabelPlan \in Seq(StepsOf("label"))
      BY <1>0 DEF FileNames, LabelPlan
    <3>2. Plan(program) = LabelPlan
      BY <2>5, Zenon DEF Plan
    <3> QED
      BY <2>5, <3>1, <3>2
  <2> QED
    BY <2>1, <2>2, <2>3, <2>4, <2>5, ProgramsAssumption
<1>2. PICK p : p = Plan(program)
  OBVIOUS
<1>3. p \in Seq(StepsOf(program))
  BY <1>1, <1>2
<1>4. \A i \in DOMAIN p : p[i] \in StepsOf(program)
  BY <1>3
<1>5. \A i \in DOMAIN p : p[i].file \in Names
  BY <1>2, <1>3 DEF Names, Output
<1>6. \A i \in DOMAIN p : p[i] \in [op : Ops, file : Names] /\ p[i].file[1] = program
  BY <1>4, <1>5 DEF StepsOf
<1>7. PICK n \in Nat : p \in [1 .. n -> [op : Ops, file : Names]]
  BY <1>3, <1>6
<1>8. p \in Seq([op : Ops, file : Names])
  <2>1. \A S : \A q \in [1 .. n -> S] : q \in Seq(S)
    OBVIOUS
  <2> QED
    BY <1>7, <2>1
<1> QED
  BY <1>2, <1>6, <1>8

(* A run that goes on leaves the others alone, none of which is active.    *)
LEMMA OneRunChanges ==
  ASSUME DatasetsInv, NEW r \in Runs, Active(r), NEW c, DOMAIN command' = Runs, command'[r] = c,
         \A q \in Runs \ {r} : command'[q] = command[q],
         CommandFields(c), c.pc \in {"removing", "writing"} => Underway(c, directory'),
         DOMAIN directory' = Names, ManifestHolds(directory')
  PROVE  DatasetsInv'
<1>1. \A q \in Runs : CommandFields(command'[q])
  BY DEF DatasetsInv
<1>2. \A q \in Runs \ {r} : command'[q].pc \notin {"removing", "writing"}
  BY DEF DatasetsInv, Active
<1>3. \A q \in Runs : command'[q].pc \in {"removing", "writing"} => Underway(command'[q], directory')
  BY <1>2
<1> QED
  BY <1>1, <1>2, <1>3 DEF DatasetsInv, Active

LEMMA OneRunActs ==
  ASSUME DatasetsInv, NEW r \in Runs, Active(r), NEW c, command' = [command EXCEPT ![r] = c],
         CommandFields(c), c.pc \in {"removing", "writing"} => Underway(c, directory'),
         DOMAIN directory' = Names, ManifestHolds(directory')
  PROVE  DatasetsInv'
<1>1. DOMAIN command' = Runs /\ command'[r] = c /\ \A q \in Runs \ {r} : command'[q] = command[q]
  BY DEF DatasetsInv
<1> QED
  BY <1>1, OneRunChanges

LEMMA OneRunWrites ==
  ASSUME DatasetsInv, NEW r \in Runs, Active(r), UNCHANGED command, Underway(command[r], directory'),
         DOMAIN directory' = Names, ManifestHolds(directory')
  PROVE  DatasetsInv'
<1>1. DOMAIN command' = Runs /\ CommandFields(command[r]) /\ \A q \in Runs : command'[q] = command[q]
  BY DEF DatasetsInv
<1> QED
  BY <1>1, OneRunChanges

LEMMA DatasetsStart == DatasetsInit => DatasetsInv
<1> SUFFICES ASSUME DatasetsInit PROVE DatasetsInv
  OBVIOUS
<1>1. \A r \in Runs : command[r] = NotStarted
  BY DEF DatasetsInit
<1>2. \A r \in Runs : CommandFields(command[r]) /\ ~ Active(r)
  BY <1>1 DEF NotStarted, CommandFields, Active
<1>3. PreparedManifest \in Names
  BY ManifestNamed
<1>4. ManifestHolds(directory)
  BY <1>3 DEF DatasetsInit, ManifestHolds
<1> QED
  BY <1>2, <1>4 DEF DatasetsInit, DatasetsInv

(* What is left of a plan after its first step.                            *)
LEMMA RestOfPlan ==
  ASSUME NEW plan \in Seq([op : Ops, file : Names]), plan # <<>>
  PROVE  /\ Tail(plan) \in Seq([op : Ops, file : Names])
         /\ Head(plan) = plan[1] /\ 1 \in DOMAIN plan
         /\ plan[1].op \in Ops /\ plan[1].file \in Names
         /\ DOMAIN Tail(plan) = 1 .. Len(plan) - 1
         /\ DOMAIN plan = 1 .. Len(plan) /\ Len(plan) \in Nat \ {0}
         /\ Len(Tail(plan)) = Len(plan) - 1
         /\ \A i \in DOMAIN Tail(plan) : i + 1 \in DOMAIN plan /\ Tail(plan)[i] = plan[i + 1]
<1> DEFINE S == [op : Ops, file : Names]
<1> HIDE DEF S
<1>1. /\ Tail(plan) \in Seq(S) /\ Head(plan) = plan[1] /\ 1 \in DOMAIN plan
      /\ DOMAIN Tail(plan) = 1 .. Len(plan) - 1
      /\ DOMAIN plan = 1 .. Len(plan) /\ Len(plan) \in Nat \ {0}
      /\ Len(Tail(plan)) = Len(plan) - 1
      /\ \A i \in DOMAIN Tail(plan) : i + 1 \in DOMAIN plan /\ Tail(plan)[i] = plan[i + 1]
  <2>1. plan \in Seq(S)
    BY DEF S
  <2>2. Len(plan) \in Nat \ {0} /\ DOMAIN plan = 1 .. Len(plan)
    BY <2>1
  <2>3. Tail(plan) \in Seq(S) /\ Len(Tail(plan)) = Len(plan) - 1 /\ Head(plan) = plan[1]
    BY <2>1
  <2>4. DOMAIN Tail(plan) = 1 .. Len(plan) - 1
    BY <2>3
  <2>5. \A i \in 1 .. Len(plan) - 1 : Tail(plan)[i] = plan[i + 1]
    BY <2>1
  <2> QED
    BY <2>2, <2>3, <2>4, <2>5
<1>2. plan[1] \in S
  <2>1. plan \in Seq(S)
    BY DEF S
  <2> QED
    BY <1>1, <2>1
<1> QED
  BY <1>1, <1>2 DEF S

(* A run that finishes its step leaves a plan of the same shape.           *)
LEMMA RestIsOrderly ==
  ASSUME NEW plan \in Seq([op : Ops, file : Names]), plan # <<>>, Orderly(plan)
  PROVE  Orderly(Tail(plan))
<1> DEFINE rest == Tail(plan)
<1>1. /\ DOMAIN rest = 1 .. Len(plan) - 1 /\ Len(rest) = Len(plan) - 1 /\ Len(plan) \in Nat
      /\ \A i \in DOMAIN rest : i + 1 \in DOMAIN plan /\ rest[i] = plan[i + 1]
  BY RestOfPlan
<1> HIDE DEF rest
<1>2. ASSUME NEW i \in DOMAIN rest
      PROVE  /\ rest[i].op # "jot" /\ rest[i].file \in Prepared
             /\ rest[i].file = PreparedManifest <=> rest[i].op = "seal"
             /\ rest[i].op = "seal" => i = Len(rest)
  BY <1>1 DEF Orderly
<1>3. ASSUME NEW i \in DOMAIN rest, NEW j \in DOMAIN rest, i < j, rest[i].op = "hash", rest[j].op = "dump"
      PROVE  rest[i].file # rest[j].file
  BY <1>1, <1>3 DEF Orderly
<1> QED
  BY <1>2, <1>3 DEF Orderly, rest

LEMMA NextStepFields ==
  ASSUME NEW c, CommandFields(c)
  PROVE  LET d == [c EXCEPT !.plan = Tail(@)]
         IN /\ d.program = c.program /\ d.pc = c.pc /\ d.plan = Tail(c.plan) /\ d.hashes = c.hashes
            /\ d.remove = c.remove /\ CommandFields(d)
<1>1. PICK rest : rest = Tail(c.plan)
  OBVIOUS
<1>2. PICK d : d = [c EXCEPT !.plan = rest]
  OBVIOUS
<1>3. /\ d.program = c.program /\ d.pc = c.pc /\ d.plan = rest /\ d.hashes = c.hashes
      /\ d.remove = c.remove /\ CommandFields(d)
  BY <1>2 DEF CommandFields
<1> QED
  BY <1>1, <1>2, <1>3

LEMMA BeginKeeps ==
  ASSUME DatasetsInv, NEW r \in Runs, Begin(r)
  PROVE  DatasetsInv'
<1> DEFINE existing(program) == program = "prepare" /\ \E f \in Prepared : Present(f)
           begun(program, force) ==
             [program |-> program,
              pc |-> IF existing(program) THEN IF force THEN "removing" ELSE "refused" ELSE "writing",
              remove |-> IF existing(program) THEN Removable ELSE <<>>,
              plan |-> Plan(program), hashes |-> [f \in {} |-> NoFile]]
<1>1. PICK program \in Programs, force \in BOOLEAN : command' = [command EXCEPT ![r] = begun(program, force)]
  BY DEF Begin
<1>2. directory' = directory /\ (\A q \in Runs : ~ Active(q))
  BY DEF Begin
<1>3. PICK c : c = begun(program, force)
  OBVIOUS
<1>4. /\ c.program = program /\ c.plan = Plan(program) /\ DOMAIN c.hashes = {} /\ CommandFields(c)
      /\ c.pc = IF existing(program) THEN IF force THEN "removing" ELSE "refused" ELSE "writing"
      /\ c.remove = IF existing(program) THEN Removable ELSE <<>>
  <2> HIDE DEF existing
  <2> QED
    BY <1>3 DEF CommandFields
<1>5. DOMAIN command' = Runs /\ command'[r] = c /\ \A q \in Runs \ {r} : command'[q] = command[q]
  BY <1>1, <1>3 DEF DatasetsInv
<1>6. ASSUME c.pc \in {"removing", "writing"} PROVE Underway(c, directory)
  <2>1. c.plan \in Seq([op : Ops, file : Names]) /\ \A i \in DOMAIN c.plan : c.plan[i].file[1] = c.program
    BY <1>4, PlanSteps
  <2>2. c.program = "prepare" => Orderly(c.plan)
    <3>1. Plan("prepare") = PreparePlan
      BY Zenon DEF Plan
    <3> QED
      BY <1>4, <3>1, PrepareIsOrderly
  <2>3. ASSUME c.program = "prepare", c.pc = "writing" PROVE HashesHold(c, directory)
    <3>1. ~ existing(program)
      BY <1>4, <2>3
    <3>2. directory[PreparedManifest] = NoFile
      BY <1>4, <2>3, <3>1, PreparedFiles DEF Present
    <3> QED
      BY <1>4, <3>2 DEF HashesHold
  <2>4. ASSUME c.pc = "removing"
        PROVE  /\ c.program = "prepare" /\ DOMAIN c.hashes = {}
               /\ c.remove \in Seq(Prepared)
               /\ \A f \in Prepared : directory[f] # NoFile => \E i \in DOMAIN c.remove : c.remove[i] = f
    <3>1. c.program = "prepare" /\ c.remove = Removable
      BY <1>4, <2>4
    <3>2. Removable \in Seq(Prepared) /\ \A f \in Prepared : \E i \in DOMAIN Removable : Removable[i] = f
      BY RemovableIsPrepared
    <3> QED
      BY <1>4, <3>1, <3>2
  <2> QED
    BY <2>1, <2>2, <2>3, <2>4 DEF Underway
<1>7. \A q \in Runs : CommandFields(command'[q])
  BY <1>4, <1>5 DEF DatasetsInv
<1>8. \A q \in Runs \ {r} : command'[q].pc \notin {"removing", "writing"}
  BY <1>2, <1>5 DEF Active
<1>9. \A q \in Runs : command'[q].pc \in {"removing", "writing"} => Underway(command'[q], directory')
  BY <1>2, <1>5, <1>6, <1>8
<1> QED
  BY <1>2, <1>5, <1>7, <1>8, <1>9 DEF DatasetsInv, Active

LEMMA UnlinkKeeps ==
  ASSUME DatasetsInv, NEW r \in Runs, Unlink(r)
  PROVE  DatasetsInv'
<1> DEFINE c == command[r]
<1>1. /\ Active(r) /\ c.pc = "removing" /\ CommandFields(c) /\ Underway(c, directory)
      /\ ManifestHolds(directory) /\ DOMAIN directory = Names
  BY DEF Unlink, DatasetsInv, Active
<1>2. CASE c.remove = <<>>
  <2> DEFINE d == [c EXCEPT !.pc = "writing"]
  <2>1. command' = [command EXCEPT ![r] = d] /\ directory' = directory
    BY <1>2 DEF Unlink
  <2>2. /\ d.program = c.program /\ d.pc = "writing" /\ d.plan = c.plan /\ d.hashes = c.hashes
        /\ d.remove = c.remove /\ CommandFields(d)
    BY <1>1 DEF CommandFields
  <2>3. directory[PreparedManifest] = NoFile
    BY <1>1, <1>2, PreparedFiles DEF Underway
  <2> HIDE DEF d
  <2>4. HashesHold(d, directory)
    BY <1>1, <2>2, <2>3 DEF Underway, HashesHold
  <2>5. Underway(d, directory)
    BY <1>1, <2>2, <2>4 DEF Underway
  <2> QED
    BY <1>1, <2>1, <2>2, <2>5, OneRunActs
<1>3. CASE c.remove # <<>>
  <2> DEFINE d == [c EXCEPT !.remove = Tail(@)]
             f == Head(c.remove)
  <2>1. command' = [command EXCEPT ![r] = d] /\ directory' = [directory EXCEPT ![f] = NoFile]
    BY <1>3 DEF Unlink, Put
  <2>2. /\ d.program = c.program /\ d.pc = c.pc /\ d.plan = c.plan /\ d.hashes = c.hashes
        /\ d.remove = Tail(c.remove) /\ CommandFields(d)
    <3>1. PICK rest : rest = Tail(c.remove)
      OBVIOUS
    <3>2. d = [c EXCEPT !.remove = rest]
      BY <3>1
    <3>3. CommandFields(c)
      BY <1>1
    <3> HIDE DEF c, d
    <3> QED
      BY <3>1, <3>2, <3>3 DEF CommandFields
  <2>3. c.remove \in Seq(Prepared)
    BY <1>1 DEF Underway
  <2>4. f \in Prepared /\ f = c.remove[1] /\ Tail(c.remove) \in Seq(Prepared)
        /\ \A i \in DOMAIN c.remove : i # 1 => i - 1 \in DOMAIN Tail(c.remove) /\ Tail(c.remove)[i - 1] = c.remove[i]
    BY <1>3, <2>3
  <2> HIDE DEF d, f, c
  <2>5. \A g \in Names : directory'[g] = IF g = f THEN NoFile ELSE directory[g]
    BY <1>1, <2>1
  <2>6. f \in Names
    BY <2>4, ManifestNamed
  <2>7. \A g \in Prepared : directory'[g] # NoFile => \E i \in DOMAIN d.remove : d.remove[i] = g
    <3> SUFFICES ASSUME NEW g \in Prepared, directory'[g] # NoFile
                 PROVE  \E i \in DOMAIN d.remove : d.remove[i] = g
      OBVIOUS
    <3>1. g # f /\ directory[g] # NoFile
      BY <2>5, <2>6, ManifestNamed
    <3>2. PICK i \in DOMAIN c.remove : c.remove[i] = g
      BY <1>1, <3>1 DEF Underway
    <3>3. i # 1
      BY <2>4, <3>1, <3>2
    <3> QED
      BY <2>2, <2>4, <3>2, <3>3
  <2>8. Underway(d, directory')
    BY <1>1, <2>2, <2>4, <2>7 DEF Underway
  <2>9. ManifestHolds(directory')
    BY <1>1, <2>5, <2>6, ManifestNamed DEF ManifestHolds, Data
  <2>10. DOMAIN directory' = Names
    BY <1>1, <2>1
  <2> QED
    BY <1>1, <2>1, <2>2, <2>8, <2>9, <2>10, OneRunActs
<1> QED
  BY <1>2, <1>3

(* A run that writes goes on to the next step of its plan.                 *)
LEMMA StepWrites ==
  ASSUME DatasetsInv, NEW r \in Runs, NEW op, Step(r, op)
  PROVE  /\ Active(r) /\ CommandFields(command[r]) /\ Underway(command[r], directory)
         /\ ManifestHolds(directory) /\ DOMAIN directory = Names
         /\ command[r].pc = "writing" /\ command[r].plan # <<>>
         /\ command[r].plan[1].op = op /\ File(r) = command[r].plan[1].file /\ File(r) \in Names
         /\ command[r].plan \in Seq([op : Ops, file : Names]) /\ 1 \in DOMAIN command[r].plan
<1>1. /\ Active(r) /\ CommandFields(command[r]) /\ Underway(command[r], directory)
      /\ ManifestHolds(directory) /\ DOMAIN directory = Names
      /\ command[r].pc = "writing" /\ command[r].plan # <<>> /\ Head(command[r].plan).op = op
  BY DEF Step, DatasetsInv, Active
<1>2. command[r].plan \in Seq([op : Ops, file : Names])
  BY <1>1 DEF Underway
<1>3. /\ Head(command[r].plan) = command[r].plan[1] /\ 1 \in DOMAIN command[r].plan
      /\ command[r].plan[1].file \in Names
  BY <1>1, <1>2, RestOfPlan
<1> QED
  BY <1>1, <1>2, <1>3 DEF File

(* The rest of a plan of a run under way, whatever it wrote or hashed.     *)
LEMMA RestUnderway ==
  ASSUME NEW c, NEW dir, NEW d, NEW to, c.pc = "writing", Underway(c, dir), c.plan # <<>>,
         d.program = c.program, d.pc = "writing", d.plan = Tail(c.plan),
         c.program = "prepare" => HashesHold(d, to)
  PROVE  Underway(d, to)
<1>1. c.plan \in Seq([op : Ops, file : Names])
  BY DEF Underway
<1>2. /\ Tail(c.plan) \in Seq([op : Ops, file : Names])
      /\ \A i \in DOMAIN Tail(c.plan) : i + 1 \in DOMAIN c.plan /\ Tail(c.plan)[i] = c.plan[i + 1]
  BY <1>1, RestOfPlan
<1>3. \A i \in DOMAIN d.plan : d.plan[i].file[1] = d.program
  BY <1>2 DEF Underway
<1>4. d.program = "prepare" => Orderly(d.plan)
  BY <1>1, RestIsOrderly DEF Underway
<1> QED
  BY <1>2, <1>3, <1>4 DEF Underway

(* Writing a file that is not the manifest, and that no manifest and no    *)
(* run under way vouches for.                                              *)
LEMMA WritesElsewhere ==
  ASSUME NEW dir, NEW to, NEW f, NEW content, ManifestHolds(dir), DOMAIN dir = Names,
         to = [dir EXCEPT ![f] = content], f # PreparedManifest, f \in Data => dir[PreparedManifest] = NoFile
  PROVE  ManifestHolds(to) /\ DOMAIN to = Names /\ to[PreparedManifest] = dir[PreparedManifest]
<1>1. DOMAIN to = Names /\ \A g \in Names : g # f => to[g] = dir[g]
  OBVIOUS
<1>2. PreparedManifest \in Names /\ Data \subseteq Names
  BY ManifestNamed DEF Data
<1>3. to[PreparedManifest] = dir[PreparedManifest]
  BY <1>1, <1>2
<1>4. ManifestHolds(to)
  BY <1>1, <1>2, <1>3 DEF ManifestHolds
<1> QED
  BY <1>1, <1>3, <1>4

LEMMA TruncateKeeps ==
  ASSUME DatasetsInv, NEW r \in Runs, TruncateFile(r) \/ Complete(r)
  PROVE  DatasetsInv'
<1> DEFINE c == command[r]
           f == File(r)
<1>1. Step(r, "dump")
  BY DEF TruncateFile, Complete
<1>2. /\ Active(r) /\ CommandFields(c) /\ Underway(c, directory) /\ ManifestHolds(directory)
      /\ DOMAIN directory = Names /\ c.pc = "writing" /\ c.plan # <<>>
      /\ c.plan[1].op = "dump" /\ f = c.plan[1].file /\ f \in Names /\ 1 \in DOMAIN c.plan
      /\ c.plan \in Seq([op : Ops, file : Names])
  BY <1>1, StepWrites
<1>3. PICK content : directory' = [directory EXCEPT ![f] = content]
  BY DEF TruncateFile, Complete, Put
<1> HIDE DEF c, f
<1>4. f # PreparedManifest /\ (f \in Data => c.program = "prepare" /\ directory[PreparedManifest] = NoFile)
  <2>1. CASE c.program = "prepare"
    BY <1>2, <2>1 DEF Underway, Orderly, HashesHold
  <2>2. CASE c.program # "prepare"
    <3>1. f[1] # "prepare"
      BY <1>2, <2>2 DEF Underway
    <3> QED
      BY <3>1, PreparedFiles DEF Data
  <2> QED
    BY <2>1, <2>2
<1>5. ManifestHolds(directory') /\ DOMAIN directory' = Names /\ directory'[PreparedManifest] = directory[PreparedManifest]
  BY <1>2, <1>3, <1>4, WritesElsewhere
<1>6. c.program = "prepare" => HashesHold(c, directory')
  <2> SUFFICES ASSUME c.program = "prepare" PROVE HashesHold(c, directory')
    OBVIOUS
  <2>1. HashesHold(c, directory)
    BY <1>2 DEF Underway
  <2>2. f \notin DOMAIN c.hashes
    BY <1>2, <2>1 DEF HashesHold
  <2>3. \A g \in DOMAIN c.hashes : directory'[g] = directory[g]
    BY <1>2, <1>3, <2>1, <2>2, ManifestNamed DEF HashesHold, Data
  <2> QED
    BY <1>5, <2>1, <2>3 DEF HashesHold
<1>7. CASE TruncateFile(r)
  <2>1. UNCHANGED command
    BY <1>7 DEF TruncateFile
  <2>2. Underway(c, directory')
    BY <1>2, <1>6 DEF Underway
  <2> QED
    BY <1>2, <1>5, <2>1, <2>2, OneRunWrites DEF c
<1>8. CASE Complete(r)
  <2> DEFINE d == [c EXCEPT !.plan = Tail(@)]
  <2>1. command' = [command EXCEPT ![r] = d]
    BY <1>8 DEF Complete, Advance, c
  <2>2. /\ d.program = c.program /\ d.pc = "writing" /\ d.plan = Tail(c.plan) /\ d.hashes = c.hashes
        /\ d.remove = c.remove /\ CommandFields(d)
    BY <1>2, NextStepFields
  <2> HIDE DEF d
  <2>3. c.program = "prepare" => HashesHold(d, directory')
    BY <1>2, <1>6, <2>2, RestOfPlan DEF HashesHold
  <2>4. Underway(d, directory')
    BY <1>2, <2>2, <2>3, RestUnderway
  <2> QED
    BY <1>2, <1>5, <2>1, <2>2, <2>4, OneRunActs
<1> QED
  BY <1>7, <1>8

LEMMA DigestKeeps ==
  ASSUME DatasetsInv, NEW r \in Runs, Digest(r)
  PROVE  DatasetsInv'
<1> DEFINE c == command[r]
           f == File(r)
           taken == [g \in DOMAIN c.hashes \cup {f} |-> IF g = f THEN directory[g] ELSE c.hashes[g]]
           d == [c EXCEPT !.hashes = taken, !.plan = Tail(@)]
<1>1. Step(r, "hash") /\ directory' = directory
  BY DEF Digest
<1>2. /\ Active(r) /\ CommandFields(c) /\ Underway(c, directory) /\ ManifestHolds(directory)
      /\ DOMAIN directory = Names /\ c.pc = "writing" /\ c.plan # <<>>
      /\ c.plan[1].op = "hash" /\ f = c.plan[1].file /\ f \in Names /\ 1 \in DOMAIN c.plan
      /\ c.plan \in Seq([op : Ops, file : Names])
  BY <1>1, StepWrites
<1>3. command' = [command EXCEPT ![r] = d]
  BY DEF Digest
<1>4. /\ d.program = c.program /\ d.pc = "writing" /\ d.plan = Tail(c.plan) /\ d.hashes = taken
      /\ d.remove = c.remove /\ CommandFields(d)
  <2>1. PICK rest : rest = Tail(c.plan)
    OBVIOUS
  <2>2. PICK h : h = taken
    OBVIOUS
  <2>3. d = [c EXCEPT !.hashes = h, !.plan = rest]
    BY <2>1, <2>2
  <2> HIDE DEF c, d, taken
  <2> QED
    BY <1>2, <2>1, <2>2, <2>3 DEF CommandFields
<1> HIDE DEF c, f, d
<1>5. ASSUME c.program = "prepare" PROVE HashesHold(d, directory)
  <2>1. HashesHold(c, directory) /\ Orderly(c.plan)
    BY <1>2, <1>5 DEF Underway
  <2>2. f \in Data
    BY <1>2, <2>1 DEF Orderly, Data
  <2>3. DOMAIN taken = DOMAIN c.hashes \cup {f} /\ DOMAIN taken \subseteq Data
    BY <2>1, <2>2 DEF HashesHold
  <2>4. \A g \in DOMAIN taken : directory[g] = taken[g]
    BY <2>1 DEF HashesHold
  <2>5. \A i \in DOMAIN Tail(c.plan) : i + 1 \in DOMAIN c.plan /\ Tail(c.plan)[i] = c.plan[i + 1] /\ i + 1 > 1
    BY <1>2, RestOfPlan
  <2> HIDE DEF taken
  <2>6. ASSUME NEW i \in DOMAIN d.plan, d.plan[i].op = "dump" PROVE d.plan[i].file \notin DOMAIN d.hashes
    <3>1. i + 1 \in DOMAIN c.plan /\ d.plan[i] = c.plan[i + 1] /\ 1 < i + 1
      BY <1>4, <2>5
    <3>2. d.plan[i].file # f
      BY <1>2, <2>1, <2>6, <3>1 DEF Orderly
    <3>3. d.plan[i].file \notin DOMAIN c.hashes
      BY <2>1, <2>6, <3>1 DEF HashesHold
    <3> QED
      BY <1>4, <2>3, <3>2, <3>3
  <2>7. directory[PreparedManifest] = NoFile
    BY <1>2, <2>1 DEF HashesHold
  <2> QED
    BY <1>4, <2>3, <2>4, <2>6, <2>7 DEF HashesHold
<1>6. Underway(d, directory)
  BY <1>2, <1>4, <1>5, RestUnderway
<1> QED
  BY <1>1, <1>2, <1>3, <1>4, <1>6, OneRunActs

LEMMA WriteManifestKeeps ==
  ASSUME DatasetsInv, NEW r \in Runs, WriteManifest(r)
  PROVE  DatasetsInv'
<1> DEFINE c == command[r]
           f == File(r)
           d == [c EXCEPT !.plan = Tail(@)]
           sealed == [by |-> r, whole |-> TRUE, hashes |-> c.hashes]
<1>1. PICK op \in {"jot", "seal"} : Step(r, op)
  BY DEF WriteManifest
<1>2. /\ Active(r) /\ CommandFields(c) /\ Underway(c, directory) /\ ManifestHolds(directory)
      /\ DOMAIN directory = Names /\ c.pc = "writing" /\ c.plan # <<>>
      /\ c.plan[1].op \in {"jot", "seal"} /\ f = c.plan[1].file /\ f \in Names /\ 1 \in DOMAIN c.plan
      /\ c.plan \in Seq([op : Ops, file : Names])
  BY <1>1, StepWrites
<1>3. PICK content :
        /\ directory' = [directory EXCEPT ![f] = content]
        /\ \/ command' = command /\ op = "jot"
           \/ command' = [command EXCEPT ![r] = d] /\ content = sealed
  <2>1. ASSUME op = "jot", Put(f, [by |-> r, whole |-> FALSE, hashes |-> NoFile]), UNCHANGED command
        PROVE  \E content : /\ directory' = [directory EXCEPT ![f] = content]
                            /\ command' = command /\ op = "jot"
    BY <2>1 DEF Put
  <2>2. ASSUME Put(f, sealed), Advance(r)
        PROVE  \E content : /\ directory' = [directory EXCEPT ![f] = content]
                            /\ command' = [command EXCEPT ![r] = d] /\ content = sealed
    BY <2>2 DEF Put, Advance
  <2>3. ~ (Step(r, "jot") /\ Step(r, "seal"))
    BY DEF Step
  <2> QED
    BY <1>1, <2>1, <2>2, <2>3 DEF WriteManifest
<1>4. /\ d.program = c.program /\ d.pc = "writing" /\ d.plan = Tail(c.plan) /\ d.hashes = c.hashes
      /\ d.remove = c.remove /\ CommandFields(d)
  BY <1>2, NextStepFields
<1>5. sealed.hashes = c.hashes
  OBVIOUS
<1>6. c = command[r]
  OBVIOUS
<1> HIDE DEF c, f, d, sealed
<1>7. CASE c.program # "prepare"
  <2>1. f[1] # "prepare"
    BY <1>2, <1>7 DEF Underway
  <2>2. f # PreparedManifest /\ f \notin Data
    BY <2>1, PreparedFiles DEF Data
  <2>3. ManifestHolds(directory') /\ DOMAIN directory' = Names
    BY <1>2, <1>3, <2>2, WritesElsewhere
  <2>4. Underway(c, directory') /\ Underway(d, directory')
    <3>1. Underway(c, directory')
      BY <1>2, <1>7 DEF Underway
    <3> QED
      BY <1>2, <1>4, <1>7, <3>1, RestUnderway
  <2>5. CASE UNCHANGED command
    BY <1>2, <1>6, <2>3, <2>4, <2>5, OneRunWrites
  <2>6. CASE command' = [command EXCEPT ![r] = d]
    BY <1>2, <1>4, <2>3, <2>4, <2>6, OneRunActs
  <2> QED
    BY <1>3, <2>5, <2>6
<1>8. CASE c.program = "prepare"
  <2>1. HashesHold(c, directory) /\ Orderly(c.plan)
    BY <1>2, <1>8 DEF Underway
  <2>2. c.plan[1].op = "seal" /\ f = PreparedManifest /\ Len(c.plan) = 1
    BY <1>2, <2>1 DEF Orderly
  <2>3. op = "seal"
    BY <1>1, <2>2, StepWrites DEF c
  <2>4. command' = [command EXCEPT ![r] = d] /\ directory' = [directory EXCEPT ![PreparedManifest] = sealed]
    BY <1>3, <2>2, <2>3
  <2>5. DOMAIN directory' = Names /\ directory'[PreparedManifest] = sealed
        /\ \A g \in Names : g # PreparedManifest => directory'[g] = directory[g]
    BY <1>2, <2>4, ManifestNamed
  <2>6. \A g \in DOMAIN c.hashes : g \in Data /\ directory'[g] = c.hashes[g]
    BY <2>1, <2>5, ManifestNamed DEF HashesHold, Data
  <2>7. ManifestHolds(directory')
    BY <1>5, <2>5, <2>6 DEF ManifestHolds
  <2>8. Tail(c.plan) = <<>>
    <3>1. Tail(c.plan) \in Seq([op : Ops, file : Names]) /\ Len(Tail(c.plan)) = 0
      BY <1>2, <2>2, RestOfPlan
    <3> QED
      BY <3>1, EmptySeq
  <2>9. HashesHold(d, directory')
    BY <1>4, <2>6, <2>8 DEF HashesHold
  <2>10. Underway(d, directory')
    BY <1>2, <1>4, <2>9, RestUnderway
  <2> QED
    BY <1>2, <1>4, <2>4, <2>5, <2>7, <2>10, OneRunActs
<1> QED
  BY <1>7, <1>8

LEMMA StoppingKeeps ==
  ASSUME DatasetsInv, NEW r \in Runs, TooSmall(r) \/ End(r) \/ Interrupt(r)
  PROVE  DatasetsInv'
<1>1. Active(r) /\ directory' = directory /\ DOMAIN directory = Names
      /\ CommandFields(command[r]) /\ ManifestHolds(directory)
  BY DEF TooSmall, End, Interrupt, Active, DatasetsInv
<1>2. PICK pc \in {"raised", "done", "killed"} : command' = [command EXCEPT ![r].pc = pc]
  BY DEF TooSmall, End, Interrupt
<1>3. PICK d : d = [command[r] EXCEPT !.pc = pc]
  OBVIOUS
<1>4. command' = [command EXCEPT ![r] = d]
  BY <1>2, <1>3
<1>5. CommandFields(d) /\ d.pc = pc
  BY <1>1, <1>3 DEF CommandFields
<1> QED
  BY <1>1, <1>4, <1>5, OneRunActs

LEMMA DatasetsStep == DatasetsInv /\ [DatasetsNext]_datasetVars => DatasetsInv'
<1> SUFFICES ASSUME DatasetsInv, [DatasetsNext]_datasetVars PROVE DatasetsInv'
  OBVIOUS
<1>1. CASE DatasetsNext
  BY <1>1, BeginKeeps, UnlinkKeeps, TruncateKeeps, DigestKeeps, WriteManifestKeeps, StoppingKeeps
  DEF DatasetsNext
<1>2. CASE UNCHANGED datasetVars
  <2>1. directory' = directory /\ command' = command
    BY <1>2 DEF datasetVars
  <2> QED
    BY <2>1 DEF DatasetsInv, Active
<1> QED
  BY <1>1, <1>2

(* For any sequence of commands, forced or refused, killed anywhere or too *)
(* small: a manifest that lies in the prepare directory lists, of every    *)
(* file that lies there too, the hash of just that file (prepare_dataset). *)
THEOREM ManifestIsNeverStale == DatasetsSpec => []PrepareManifestIsTrue
<1>1. DatasetsInv => PrepareManifestIsTrue
  BY DEF DatasetsInv, ManifestHolds, PrepareManifestIsTrue, PreparedManifest
<1> QED
  BY <1>1, DatasetsStart, DatasetsStep, PTL DEF DatasetsSpec

(* A file is put under its name, whole or not, by the run at work.         *)
LEMMA PutTypes ==
  ASSUME DatasetsTypeOK, NEW f, NEW content, Put(f, content),
         content = NoFile \/ (content.by \in Runs /\ content.whole \in BOOLEAN)
  PROVE  /\ DOMAIN directory' = Names
         /\ \A g \in Names : directory'[g] = NoFile
                              \/ (directory'[g].by \in Runs /\ directory'[g].whole \in BOOLEAN)
BY DEF DatasetsTypeOK, Put

LEMMA DatasetsTyped ==
  DatasetsInv /\ DatasetsTypeOK /\ [DatasetsNext]_datasetVars => DatasetsTypeOK'
<1> SUFFICES ASSUME DatasetsInv, DatasetsTypeOK, [DatasetsNext]_datasetVars PROVE DatasetsTypeOK'
  OBVIOUS
<1> DEFINE Places == {"idle", "refused", "removing", "writing", "raised", "done", "killed"}
           FilesTyped == /\ DOMAIN directory' = Names
                         /\ \A g \in Names : directory'[g] = NoFile
                              \/ (directory'[g].by \in Runs /\ directory'[g].whole \in BOOLEAN)
<1>1. CASE DatasetsNext
  <2>1. PICK r \in Runs : \/ Begin(r) \/ Unlink(r) \/ TruncateFile(r) \/ Complete(r) \/ Digest(r)
                         \/ WriteManifest(r) \/ TooSmall(r) \/ End(r) \/ Interrupt(r)
    BY <1>1 DEF DatasetsNext
  <2>2. FilesTyped
    <3>1. CASE UNCHANGED directory
      BY <3>1 DEF DatasetsTypeOK
    <3>2. CASE Unlink(r) /\ command[r].remove # <<>>
      BY <3>2, PutTypes DEF Unlink
    <3>3. CASE TruncateFile(r) \/ Complete(r) \/ WriteManifest(r)
      <4>1. \E hashes : \E whole \in BOOLEAN :
              Put(File(r), [by |-> r, whole |-> whole, hashes |-> hashes])
        BY <3>3 DEF TruncateFile, Complete, WriteManifest
      <4> QED
        BY <4>1, PutTypes
    <3> QED
      BY <2>1, <3>1, <3>2, <3>3 DEF Begin, Unlink, Digest, TooSmall, End, Interrupt
  <2>3. \A q \in Runs : command'[q].pc \in Places
    <3>1. \A q \in Runs : command[q].pc \in Places /\ CommandFields(command[q])
      BY DEF DatasetsTypeOK, DatasetsInv
    <3>2. DOMAIN command = Runs
      BY DEF DatasetsInv
    <3>3. CASE Begin(r)
      <4>1. PICK c : command' = [command EXCEPT ![r] = c] /\ c.pc \in {"removing", "refused", "writing"}
        <5> DEFINE existing(program) == program = "prepare" /\ \E f \in Prepared : Present(f)
                   begun(program, force) ==
                     [program |-> program,
                      pc |-> IF existing(program) THEN IF force THEN "removing" ELSE "refused" ELSE "writing",
                      remove |-> IF existing(program) THEN Removable ELSE <<>>,
                      plan |-> Plan(program), hashes |-> [f \in {} |-> NoFile]]
        <5>1. PICK program \in Programs, force \in BOOLEAN :
                command' = [command EXCEPT ![r] = begun(program, force)]
          BY <3>3 DEF Begin
        <5>2. PICK c : c = begun(program, force)
          OBVIOUS
        <5>3. c.pc \in {"removing", "refused", "writing"}
          <6> HIDE DEF existing
          <6> QED
            BY <5>2
        <5>4. command' = [command EXCEPT ![r] = c]
          BY <5>1, <5>2, Zenon
        <5> QED
          BY <5>3, <5>4
      <4> QED
        BY <3>1, <3>2, <4>1
    <3>4. CASE UNCHANGED command
      BY <3>1, <3>4
    <3>5. CASE \E pc \in Places : command' = [command EXCEPT ![r].pc = pc]
      BY <3>1, <3>2, <3>5 DEF CommandFields
    <3>6. CASE Unlink(r) /\ command[r].remove # <<>>
      <4>1. command' = [command EXCEPT ![r].remove = Tail(@)]
        BY <3>6 DEF Unlink
      <4> QED
        BY <3>1, <3>2, <4>1 DEF CommandFields
    <3>7. CASE Advance(r)
      BY <3>1, <3>2, <3>7 DEF CommandFields, Advance
    <3>8. CASE Digest(r)
      BY <3>1, <3>2, <3>8 DEF CommandFields, Digest
    <3>9. CASE Unlink(r) /\ command[r].remove = <<>>
      BY <3>5, <3>9 DEF Unlink
    <3>10. CASE TooSmall(r) \/ End(r) \/ Interrupt(r)
      BY <3>5, <3>10 DEF TooSmall, End, Interrupt
    <3>11. CASE TruncateFile(r) \/ Complete(r) \/ WriteManifest(r)
      BY <3>4, <3>7, <3>11 DEF TruncateFile, Complete, WriteManifest
    <3> QED
      BY <2>1, <3>3, <3>6, <3>8, <3>9, <3>10, <3>11
  <2> QED
    BY <2>2, <2>3 DEF DatasetsTypeOK
<1>2. CASE UNCHANGED datasetVars
  BY <1>2 DEF datasetVars, DatasetsTypeOK
<1> QED
  BY <1>1, <1>2

(* Every file that lies in a directory was written by one of the runs, and *)
(* every run is somewhere between its start and its end.                   *)
THEOREM DatasetsTypes == DatasetsSpec => []DatasetsTypeOK
<1>1. DatasetsInit => DatasetsInv /\ DatasetsTypeOK
  BY DatasetsStart DEF DatasetsInit, DatasetsTypeOK, NotStarted
<1>2. DatasetsInv /\ DatasetsTypeOK /\ [DatasetsNext]_datasetVars => (DatasetsInv /\ DatasetsTypeOK)'
  BY DatasetsStep, DatasetsTyped
<1> QED
  BY <1>1, <1>2, PTL DEF DatasetsSpec
---------------------------------------------------------------------------
(* Training: the types, and what "best" holds *)

Places == {"start", "refused", "epoch", "batch", "update", "validate", "save", "raised", "done", "killed"}
Going  == {"start", "epoch", "batch", "update", "validate", "save", "done"}
Params == [applied : Nat, finite : BOOLEAN]
Content == {Absent} \cup [epoch : Nat, params : Params]
Batches == run.corpus.train

Typed ==
  /\ run \in [program : Trainers, corpus : Corpora, pc : Places, epoch : 1 .. Epochs + 1, step : Nat]
  /\ run.step <= Batches
  /\ params \in Params
  /\ pending \in [count : Nat, finite : BOOLEAN] /\ pending.count <= GradAccum
  /\ bestNll \in Scores \cup {Infinity}
  /\ validations \in Seq(Scores \cup {NaN})
  /\ saving = [slot |-> saving.slot, files |-> saving.files] /\ saving.files \in Seq(CheckpointFiles)
  /\ checkpoint \in [CheckpointSlots -> [CheckpointFiles -> Content]]

(* The batches of the epochs before this one, and of this one so far.      *)
Seen(steps) == (run.epoch - 1) * Batches + steps

(* The batches are applied group by group: those not applied are the last  *)
(* ones, less than a group before each batch.                              *)
Accumulated(most) ==
  /\ params.applied + pending.count = Seen(run.step)
  /\ \E full \in Nat : run.step = full * GradAccum + pending.count
  /\ pending.count <= most

(* Where the loop stands. *)
Place ==
  /\ run.pc \in Going \ {"start"} => Batches # 0
  /\ run.pc \in {"start", "epoch", "done"} => params.applied = Seen(0) /\ pending = NoGradient
  /\ run.pc = "batch" => run.step < Batches /\ Accumulated(GradAccum - 1)
  /\ run.pc = "update" => run.step > 0 /\ Accumulated(GradAccum)
  /\ run.pc \in {"validate", "save"} => params.applied = Seen(Batches) /\ pending = NoGradient
  /\ run.pc \in {"batch", "update", "validate", "save"} => run.epoch <= Epochs

(* The validation of the epoch is there while its checkpoints are saved.   *)
Validated ==
  /\ run.pc \in Going \ {"save"} => Len(validations) = run.epoch - 1
  /\ run.pc = "save" =>
       /\ Len(validations) = run.epoch /\ saving.slot \in CheckpointSlots
       /\ validations[run.epoch] # NaN => params.finite

(* w is the first of the lowest of the first k validations.                *)
Wins(w, k, found) ==
  /\ w \in 1 .. k /\ found[w] # NaN
  /\ \A d \in 1 .. k : found[d] # NaN => found[w] <= found[d] /\ (d < w => found[w] < found[d])

Trained(w, batches) == [epoch |-> w, params |-> [applied |-> w * batches, finite |-> TRUE]]

(* After k epochs "best" is the winner's, or nothing where there is none.  *)
Earned(k, nll, best, found, batches) ==
  \/ nll = Infinity /\ best = NoCheckpoint /\ \A d \in 1 .. k : found[d] = NaN
  \/ \E w \in 1 .. k : /\ Wins(w, k, found) /\ nll = found[w]
                       /\ best = [f \in CheckpointFiles |-> Trained(w, batches)]

SavingBest == run.pc = "save" /\ saving.slot = "best"

Judged ==
  /\ run.pc \in Going /\ ~ SavingBest =>
       Earned(run.epoch - 1, bestNll, checkpoint["best"], validations, Batches)
  /\ SavingBest =>
       /\ Wins(run.epoch, run.epoch, validations) /\ bestNll = validations[run.epoch]
       /\ \A f \in CheckpointFiles :
            (\A i \in DOMAIN saving.files : saving.files[i] # f) =>
              checkpoint["best"][f] = Trained(run.epoch, Batches)

TrainingInv == Typed /\ Place /\ Validated /\ Judged
---------------------------------------------------------------------------
LEMMA MultiplesHaveNoRest ==
  ASSUME NEW a \in Nat, NEW g \in Nat \ {0}
  PROVE  (a * g) % g = 0
OBVIOUS

LEMMA NoRestIsMultiple ==
  ASSUME NEW n \in Nat, NEW g \in Nat \ {0}, n % g = 0
  PROVE  \E a \in Nat : n = a * g
<1>1. n = g * (n \div g)
  BY Z3
<1>2. n \div g \in Nat
  OBVIOUS
<1>3. PICK a \in Nat : n = g * a
  BY <1>1, <1>2
<1> QED
  BY <1>3

LEMMA OrderIsFull ==
  SaveOrder \in Seq(CheckpointFiles) /\ \A f \in CheckpointFiles : \E i \in DOMAIN SaveOrder : SaveOrder[i] = f
<1>1. PICK order : order = SaveOrder
  OBVIOUS
<1>2. \/ order = <<"config", "weights", "tokenizer">>
      \/ order = <<"weights", "tokenizer", "config">>
  BY <1>1 DEF SaveOrder
<1>3. order \in Seq(CheckpointFiles) /\ DOMAIN order = 1 .. 3
  <2>1. "config" \in CheckpointFiles /\ "weights" \in CheckpointFiles /\ "tokenizer" \in CheckpointFiles
    BY DEF CheckpointFiles
  <2>2. \A a, b, c \in CheckpointFiles : <<a, b, c>> \in Seq(CheckpointFiles) /\ DOMAIN <<a, b, c>> = 1 .. 3
    OBVIOUS
  <2>3. CASE order = <<"config", "weights", "tokenizer">>
    BY <2>1, <2>2, <2>3, Zenon
  <2>4. CASE order = <<"weights", "tokenizer", "config">>
    BY <2>1, <2>2, <2>4, Zenon
  <2> QED
    BY <1>2, <2>3, <2>4
<1>4. \A f \in CheckpointFiles : f = order[1] \/ f = order[2] \/ f = order[3]
  BY <1>2 DEF CheckpointFiles
<1> QED
  BY <1>1, <1>3, <1>4

(* What was earned by the validations so far is earned still when there is *)
(* one more.                                                               *)
LEMMA EarnedByPrefix ==
  ASSUME NEW k \in Nat, NEW nll, NEW best, NEW found, NEW longer, NEW batches,
         Earned(k, nll, best, found, batches), \A d \in 1 .. k : longer[d] = found[d]
  PROVE  Earned(k, nll, best, longer, batches)
BY DEF Earned, Wins

LEMMA TrainingStarts == TrainingInit => TrainingInv
<1> SUFFICES ASSUME TrainingInit PROVE TrainingInv
  OBVIOUS
<1>1. PICK program \in Trainers, corpus \in Corpora :
        run = [program |-> program, corpus |-> corpus, pc |-> "start", epoch |-> 1, step |-> 0]
  BY DEF TrainingInit
<1>2. /\ run.program = program /\ run.corpus = corpus /\ run.pc = "start" /\ run.epoch = 1 /\ run.step = 0
      /\ Batches \in Nat
  BY <1>1, TrainingAssumption DEF Batches
<1>3. checkpoint["best"] = NoCheckpoint /\ checkpoint \in [CheckpointSlots -> [CheckpointFiles -> Content]]
  BY DEF TrainingInit, CheckpointSlots, NoCheckpoint, Content
<1>4. Typed
  BY <1>1, <1>2, <1>3, TrainingAssumption DEF TrainingInit, Typed, Places, Params, NoGradient
<1>5. Seen(0) = 0
  BY <1>2 DEF Seen
<1>6. Place
  BY <1>2, <1>5 DEF TrainingInit, Place
<1>7. Validated
  BY <1>2 DEF TrainingInit, Validated
<1>8. Judged
  BY <1>2, <1>3 DEF TrainingInit, Judged, SavingBest, Earned
<1> QED
  BY <1>4, <1>6, <1>7, <1>8 DEF TrainingInv

LEMMA RunShape ==
  ASSUME Typed
  PROVE  /\ run.pc \in Places /\ run.epoch \in Nat /\ run.epoch >= 1 /\ run.epoch <= Epochs + 1
         /\ run.epoch \in 1 .. Epochs + 1
         /\ run.step \in Nat /\ run.step <= Batches /\ Batches \in Nat
         /\ run = [run EXCEPT !.pc = run.pc] /\ Epochs \in Nat /\ GradAccum \in Nat \ {0}
BY TrainingAssumption DEF Typed, Batches

(* A process that stopped owes nothing more.                               *)
LEMMA Stopping ==
  ASSUME TrainingInv, NEW pc \in {"refused", "raised", "killed"}, run' = [run EXCEPT !.pc = pc],
         UNCHANGED <<params, pending, bestNll, validations, saving, checkpoint>>
  PROVE  TrainingInv'
<1>1. Typed
  BY DEF TrainingInv
<1>2. run' \in [program : Trainers, corpus : Corpora, pc : Places, epoch : 1 .. Epochs + 1, step : Nat]
      /\ run'.pc = pc /\ run'.step = run.step /\ Batches' = Batches
  BY <1>1 DEF Typed, Places, Batches
<1>3. Typed'
  BY <1>1, <1>2 DEF Typed
<1>4. Place' /\ Validated' /\ Judged'
  BY <1>2 DEF Place, Validated, Judged, SavingBest, Going
<1> QED
  BY <1>3, <1>4 DEF TrainingInv

LEMMA StartKeeps ==
  ASSUME TrainingInv, StartTraining
  PROVE  TrainingInv'
<1>1. UNCHANGED <<params, pending, bestNll, validations, saving, checkpoint>> /\ run.pc = "start"
  BY DEF StartTraining, In
<1>2. CASE run.corpus.train = 0 \/ run.corpus.valid = 0
  <2>1. run' = [run EXCEPT !.pc = "refused"]
    BY <1>2 DEF StartTraining
  <2> QED
    BY <1>1, <2>1, Stopping
<1>3. CASE ~ (run.corpus.train = 0 \/ run.corpus.valid = 0)
  <2>1. run' = [run EXCEPT !.pc = "epoch"] /\ Batches # 0
    BY <1>3 DEF StartTraining, Batches
  <2>2. Typed
    BY DEF TrainingInv
  <2>3. run' \in [program : Trainers, corpus : Corpora, pc : Places, epoch : 1 .. Epochs + 1, step : Nat]
        /\ run'.pc = "epoch" /\ run'.step = run.step /\ run'.epoch = run.epoch /\ Batches' = Batches
    BY <2>1, <2>2 DEF Typed, Places, Batches
  <2>4. Typed'
    BY <1>1, <2>2, <2>3 DEF Typed
  <2>5. Seen(0)' = Seen(0)
    BY <2>3 DEF Seen
  <2>6. Place'
    BY <1>1, <2>1, <2>3, <2>5 DEF TrainingInv, Place
  <2>7. Validated' /\ Judged'
    BY <1>1, <2>3 DEF TrainingInv, Validated, Judged, SavingBest, Going
  <2> QED
    BY <2>4, <2>6, <2>7 DEF TrainingInv
<1> QED
  BY <1>2, <1>3

LEMMA BeginEpochKeeps ==
  ASSUME TrainingInv, BeginEpoch
  PROVE  TrainingInv'
<1>1. UNCHANGED <<params, bestNll, validations, saving, checkpoint>> /\ run.pc = "epoch" /\ Typed
  BY DEF BeginEpoch, In, TrainingInv
<1>2. pending = NoGradient /\ pending' = NoGradient /\ params.applied = Seen(0) /\ Batches # 0
  BY <1>1 DEF BeginEpoch, TrainingInv, Place, Going
<1>3. PICK pc \in {"done", "batch"} : /\ run' = [run EXCEPT !.pc = pc, !.step = 0]
                                      /\ pc = "batch" => ~ run.epoch > Epochs
  BY DEF BeginEpoch
<1>4. run' \in [program : Trainers, corpus : Corpora, pc : Places, epoch : 1 .. Epochs + 1, step : Nat]
      /\ run'.pc = pc /\ run'.step = 0 /\ run'.epoch = run.epoch /\ Batches' = Batches
  BY <1>1, <1>3 DEF Typed, Places, Batches
<1>5. Batches \in Nat /\ run.epoch \in Nat /\ Epochs \in Nat /\ GradAccum \in Nat \ {0}
  BY <1>1, RunShape
<1>6. Typed'
  BY <1>1, <1>2, <1>4, <1>5 DEF Typed, NoGradient
<1>7. Seen(0)' = Seen(0)
  BY <1>4 DEF Seen
<1>8. pc = "batch" => Accumulated(GradAccum - 1)'
  <2>1. pending'.count = 0 /\ params.applied \in Nat
    BY <1>1, <1>2 DEF NoGradient, Typed, Params
  <2>2. params'.applied + pending'.count = Seen(run.step)'
    BY <1>1, <1>2, <1>4, <1>7, <2>1 DEF Seen
  <2>3. run'.step = 0 * GradAccum + pending'.count
    BY <1>4, <1>5, <2>1
  <2> QED
    BY <1>5, <2>1, <2>2, <2>3 DEF Accumulated
<1>9. Place'
  BY <1>1, <1>2, <1>3, <1>4, <1>5, <1>7, <1>8 DEF Place
<1>10. Validated' /\ Judged'
  BY <1>1, <1>4 DEF TrainingInv, Validated, Judged, SavingBest, Going
<1> QED
  BY <1>6, <1>9, <1>10 DEF TrainingInv

LEMMA BackwardKeeps ==
  ASSUME TrainingInv, Backward
  PROVE  TrainingInv'
<1>1. UNCHANGED <<params, bestNll, validations, saving, checkpoint>> /\ run.pc = "batch" /\ Typed
  BY DEF Backward, In, TrainingInv
<1>2. CASE "train" \in run.corpus.labelled
  <2>1. PICK finite \in BOOLEAN :
          pending' = [count |-> pending.count + 1, finite |-> pending.finite /\ params.finite /\ finite]
    BY <1>2 DEF Backward
  <2>2. run' = [run EXCEPT !.pc = "update", !.step = run.step + 1]
    BY <1>2 DEF Backward
  <2>3. /\ run.step < Batches /\ Batches # 0 /\ run.epoch <= Epochs
        /\ params.applied + pending.count = Seen(run.step) /\ pending.count <= GradAccum - 1
        /\ \E full \in Nat : run.step = full * GradAccum + pending.count
    BY <1>1 DEF TrainingInv, Place, Accumulated, Going
  <2>4. Batches \in Nat /\ run.epoch \in Nat /\ GradAccum \in Nat \ {0} /\ run.step \in Nat
    BY <1>1, RunShape
  <2>5. run' \in [program : Trainers, corpus : Corpora, pc : Places, epoch : 1 .. Epochs + 1, step : Nat]
        /\ run'.pc = "update" /\ run'.step = run.step + 1 /\ run'.epoch = run.epoch /\ Batches' = Batches
    <3>1. PICK next \in Nat : next = run.step + 1
      BY <2>4
    <3> QED
      BY <1>1, <2>2, <3>1 DEF Typed, Places, Batches
  <2>6. /\ pending'.count = pending.count + 1 /\ pending.count \in Nat /\ params.applied \in Nat
        /\ pending' \in [count : Nat, finite : BOOLEAN]
    BY <1>1, <2>1 DEF Typed, Params
  <2>7. Typed'
    BY <1>1, <2>3, <2>4, <2>5, <2>6 DEF Typed
  <2>8. Accumulated(GradAccum)'
    <3>1. PICK full \in Nat : run.step = full * GradAccum + pending.count
      BY <2>3
    <3> DEFINE m == full * GradAccum
               base == (run.epoch - 1) * Batches
    <3>2. m \in Nat /\ run.step = m + pending.count /\ base \in Int
      BY <2>4, <3>1
    <3>3. Seen(run.step) = base + run.step /\ Seen(run.step)' = base + (run.step + 1)
      BY <2>5 DEF Seen
    <3> HIDE DEF m, base
    <3>4. run'.step = m + pending'.count
      BY <2>4, <2>5, <2>6, <3>2
    <3>5. params'.applied + pending'.count = Seen(run.step)'
      BY <1>1, <2>3, <2>4, <2>6, <3>2, <3>3
    <3>6. pending'.count <= GradAccum
      BY <2>3, <2>4, <2>6
    <3> QED
      BY <3>4, <3>5, <3>6 DEF Accumulated, m
  <2>9. Place'
    BY <2>3, <2>4, <2>5, <2>8 DEF Place
  <2>10. Validated' /\ Judged'
    BY <1>1, <2>5 DEF TrainingInv, Validated, Judged, SavingBest, Going
  <2> QED
    BY <2>7, <2>9, <2>10 DEF TrainingInv
<1>3. CASE "train" \notin run.corpus.labelled
  <2>1. run' = [run EXCEPT !.pc = "raised"] /\ pending' = pending
    BY <1>3 DEF Backward
  <2> QED
    BY <1>1, <2>1, Stopping
<1> QED
  BY <1>2, <1>3

(* After a step the loop goes on with the next batch, or validates.        *)
LEMMA AfterStepGoes ==
  ASSUME Typed, run.step > 0
  PROVE  /\ AfterStep \in {"validate", "batch"}
         /\ AfterStep = "validate" <=> run.step = Batches
BY DEF AfterStep, Batches

LEMMA ApplyUpdateKeeps ==
  ASSUME TrainingInv, ApplyUpdate
  PROVE  TrainingInv'
<1>1. UNCHANGED <<bestNll, validations, saving, checkpoint>> /\ run.pc = "update" /\ Typed
  BY DEF ApplyUpdate, In, TrainingInv
<1>2. /\ run.step > 0 /\ Batches # 0 /\ run.epoch <= Epochs
      /\ params.applied + pending.count = Seen(run.step) /\ pending.count <= GradAccum
      /\ \E full \in Nat : run.step = full * GradAccum + pending.count
  BY <1>1 DEF TrainingInv, Place, Accumulated, Going
<1>3. /\ Batches \in Nat /\ run.epoch \in Nat /\ GradAccum \in Nat \ {0} /\ run.step \in Nat
      /\ run.step <= Batches
  BY <1>1, RunShape
<1>4. /\ pending.count \in Nat /\ params.applied \in Nat
      /\ pending.finite \in BOOLEAN /\ params.finite \in BOOLEAN
  BY <1>1 DEF Typed, Params
<1>5. AfterStep \in {"validate", "batch"} /\ (AfterStep = "validate" <=> run.step = Batches)
  BY <1>1, <1>2, AfterStepGoes
<1>6. CASE UpdateDue /\ Poisoned
  <2>1. run' = [run EXCEPT !.pc = "raised"] /\ UNCHANGED <<params, pending>>
    BY <1>6 DEF ApplyUpdate
  <2> QED
    BY <1>1, <2>1, Stopping
<1>7. CASE run' = [run EXCEPT !.pc = AfterStep]
  <2>1. run' \in [program : Trainers, corpus : Corpora, pc : Places, epoch : 1 .. Epochs + 1, step : Nat]
        /\ run'.pc = AfterStep /\ run'.step = run.step /\ run'.epoch = run.epoch /\ Batches' = Batches
    BY <1>1, <1>5, <1>7 DEF Typed, Places, Batches
  <2>2. \A x : Seen(x)' = Seen(x')
    BY <2>1 DEF Seen
  <2>3. Validated' /\ Judged'
    BY <1>1, <1>5, <2>1 DEF TrainingInv, Validated, Judged, SavingBest, Going
  <2>4. CASE UpdateDue /\ ~ Poisoned
    <3>1. /\ params' = [applied |-> params.applied + pending.count, finite |-> params.finite /\ pending.finite]
          /\ pending' = NoGradient
      BY <2>4 DEF ApplyUpdate
    <3>2. params'.applied = Seen(run.step) /\ pending'.count = 0 /\ params' \in Params
      BY <1>2, <1>4, <3>1 DEF NoGradient, Params
    <3>3. Typed'
      BY <1>1, <1>3, <2>1, <3>1, <3>2 DEF Typed, NoGradient
    <3>4. AfterStep = "batch" => Accumulated(GradAccum - 1)'
      <4> SUFFICES ASSUME AfterStep = "batch" PROVE Accumulated(GradAccum - 1)'
        OBVIOUS
      <4>1. run.step % GradAccum = 0
        BY <1>5, <2>4 DEF UpdateDue, Batches
      <4>2. PICK full \in Nat : run.step = full * GradAccum
        BY <1>3, <4>1, NoRestIsMultiple
      <4>3. run'.step = full * GradAccum + pending'.count
        BY <1>3, <2>1, <3>2, <4>2
      <4>4. params'.applied + pending'.count = Seen(run.step)'
        BY <1>2, <1>4, <2>1, <3>2 DEF Seen
      <4> QED
        BY <1>3, <3>2, <4>3, <4>4 DEF Accumulated
    <3>5. AfterStep = "validate" => params'.applied = Seen(Batches)'
      BY <1>5, <2>1, <3>2 DEF Seen
    <3>6. Place'
      BY <1>2, <1>3, <1>5, <2>1, <3>1, <3>4, <3>5 DEF Place
    <3> QED
      BY <2>3, <3>3, <3>6 DEF TrainingInv
  <2>5. CASE ~ UpdateDue
    <3>1. UNCHANGED <<params, pending>>
      BY <2>5 DEF ApplyUpdate
    <3>2. Typed'
      BY <1>1, <2>1, <3>1 DEF Typed
    <3>3. AfterStep = "batch" /\ run.step < Batches /\ run.step % GradAccum # 0
      BY <1>3, <1>5, <2>5 DEF UpdateDue, Batches
    <3>4. PICK full \in Nat : run.step = full * GradAccum + pending.count
      BY <1>2
    <3>5. pending.count # GradAccum
      <4> SUFFICES ASSUME pending.count = GradAccum PROVE FALSE
        OBVIOUS
      <4>1. run.step = (full + 1) * GradAccum
        BY <1>3, <3>4
      <4> QED
        BY <1>3, <3>3, <4>1, MultiplesHaveNoRest
    <3>6. Accumulated(GradAccum - 1)'
      <4>1. pending.count <= GradAccum - 1
        BY <1>2, <1>3, <1>4, <3>5
      <4>2. params'.applied + pending'.count = Seen(run.step)'
        BY <1>2, <2>1, <3>1 DEF Seen
      <4> QED
        BY <2>1, <3>1, <3>4, <4>1, <4>2 DEF Accumulated
    <3>7. Place'
      BY <1>2, <2>1, <3>3, <3>6 DEF Place
    <3> QED
      BY <2>3, <3>2, <3>7 DEF TrainingInv
  <2> QED
    BY <2>4, <2>5, <1>6, <1>7 DEF ApplyUpdate
<1> QED
  BY <1>6, <1>7 DEF ApplyUpdate

LEMMA ValidateKeeps ==
  ASSUME TrainingInv, Validate
  PROVE  TrainingInv'
<1>1. UNCHANGED <<params, pending, bestNll, checkpoint>> /\ run.pc = "validate" /\ Typed
  BY DEF Validate, In, TrainingInv
<1>2. CASE "valid" \notin run.corpus.labelled
  <2>1. run' = [run EXCEPT !.pc = "raised"] /\ UNCHANGED <<validations, saving>>
    BY <1>2 DEF Validate
  <2> QED
    BY <1>1, <2>1, Stopping
<1>3. CASE "valid" \in run.corpus.labelled
  <2>1. PICK nll \in IF params.finite THEN Scores ELSE {NaN} : validations' = Append(validations, nll)
    BY <1>3 DEF Validate
  <2>2. saving' = [slot |-> "last", files |-> SaveOrder] /\ run' = [run EXCEPT !.pc = "save"]
    BY <1>3 DEF Validate
  <2>3. run' \in [program : Trainers, corpus : Corpora, pc : Places, epoch : 1 .. Epochs + 1, step : Nat]
        /\ run'.pc = "save" /\ run'.step = run.step /\ run'.epoch = run.epoch /\ Batches' = Batches
    BY <1>1, <2>2 DEF Typed, Places, Batches
  <2>4. nll \in Scores \cup {NaN} /\ (nll # NaN => params.finite)
    BY <2>1
  <2>5. /\ Len(validations) = run.epoch - 1 /\ run.epoch \in Nat /\ run.epoch >= 1
        /\ validations \in Seq(Scores \cup {NaN})
    BY <1>1, RunShape DEF TrainingInv, Validated, Going, Typed
  <2>6. /\ validations' \in Seq(Scores \cup {NaN}) /\ Len(validations') = run.epoch
        /\ validations'[run.epoch] = nll
        /\ \A d \in 1 .. run.epoch - 1 : validations'[d] = validations[d]
    <3> DEFINE S == Scores \cup {NaN}
    <3> HIDE DEF S
    <3>1. validations \in Seq(S) /\ nll \in S
      BY <2>4, <2>5 DEF S
    <3>2. validations' \in Seq(S) /\ Len(validations') = Len(validations) + 1
      BY <2>1, <3>1
    <3>3. \A d \in 1 .. Len(validations) : validations'[d] = validations[d]
      BY <2>1, <3>1
    <3>4. validations'[Len(validations) + 1] = nll
      BY <2>1, <3>1
    <3> QED
      BY <2>5, <3>2, <3>3, <3>4 DEF S
  <2>7. saving'.slot = "last" /\ saving'.files \in Seq(CheckpointFiles)
        /\ saving' = [slot |-> saving'.slot, files |-> saving'.files]
    <3>1. SaveOrder \in Seq(CheckpointFiles)
      BY OrderIsFull
    <3> QED
      BY <2>2, <3>1
  <2>8. Typed'
    BY <1>1, <2>3, <2>6, <2>7 DEF Typed
  <2>9. Place'
    BY <1>1, <2>3 DEF TrainingInv, Place, Seen, Going
  <2>10. Validated'
    BY <1>1, <2>3, <2>4, <2>6, <2>7 DEF Validated, CheckpointSlots, Going
  <2>11. Judged'
    <3>1. Earned(run.epoch - 1, bestNll, checkpoint["best"], validations, Batches)
      BY <1>1 DEF TrainingInv, Judged, SavingBest, Going
    <3>2. Earned(run.epoch - 1, bestNll, checkpoint["best"], validations', Batches)
      BY <2>5, <2>6, <3>1, EarnedByPrefix
    <3> QED
      BY <1>1, <2>3, <2>7, <3>2 DEF Judged, SavingBest
  <2> QED
    BY <2>8, <2>9, <2>10, <2>11 DEF TrainingInv
<1> QED
  BY <1>2, <1>3

LEMMA SaveFileKeeps ==
  ASSUME TrainingInv, SaveFile
  PROVE  TrainingInv'
<1> DEFINE name == Head(saving.files)
           content == [epoch |-> run.epoch, params |-> params]
<1>1. /\ UNCHANGED <<run, params, pending, bestNll, validations>> /\ run.pc = "save" /\ saving.files # <<>>
      /\ Typed /\ Place /\ Validated /\ Judged
  BY DEF SaveFile, In, TrainingInv
<1>2. /\ checkpoint' = [checkpoint EXCEPT ![saving.slot][name] = content]
      /\ saving' = [saving EXCEPT !.files = Tail(@)]
  BY DEF SaveFile
<1>3. /\ saving.files \in Seq(CheckpointFiles) /\ saving = [slot |-> saving.slot, files |-> saving.files]
      /\ checkpoint \in [CheckpointSlots -> [CheckpointFiles -> Content]] /\ params \in Params
      /\ run.epoch \in Nat /\ saving.slot \in CheckpointSlots
  BY <1>1, RunShape DEF Typed, Validated
<1>4. /\ name \in CheckpointFiles /\ name = saving.files[1] /\ Tail(saving.files) \in Seq(CheckpointFiles)
      /\ \A i \in DOMAIN saving.files :
           i # 1 => i - 1 \in DOMAIN Tail(saving.files) /\ Tail(saving.files)[i - 1] = saving.files[i]
  BY <1>1, <1>3
<1>5. saving' = [slot |-> saving.slot, files |-> Tail(saving.files)]
      /\ saving'.slot = saving.slot /\ saving'.files = Tail(saving.files)
  <2>1. PICK rest : rest = Tail(saving.files)
    OBVIOUS
  <2>2. saving' = [saving EXCEPT !.files = rest]
    BY <1>2, <2>1
  <2> QED
    BY <1>3, <2>1, <2>2
<1>6. content \in Content
  BY <1>3 DEF Content
<1>7. content = [epoch |-> run.epoch, params |-> params]
  OBVIOUS
<1> HIDE DEF name, content
<1>8. checkpoint' \in [CheckpointSlots -> [CheckpointFiles -> Content]]
  BY <1>2, <1>3, <1>4, <1>6
<1>9. Typed'
  BY <1>1, <1>3, <1>4, <1>5, <1>8 DEF Typed, Batches
<1>10. Place' /\ Validated'
  BY <1>1, <1>5 DEF Place, Validated, Seen, Batches, Going
<1>11. Judged'
  <2>1. CASE saving.slot = "last"
    <3>1. checkpoint'["best"] = checkpoint["best"]
      BY <1>2, <1>3, <2>1 DEF CheckpointSlots
    <3> QED
      BY <1>1, <1>5, <2>1, <3>1 DEF Judged, SavingBest, Batches
  <2>2. CASE saving.slot = "best"
    <3>1. /\ checkpoint'["best"][name] = content
          /\ \A f \in CheckpointFiles \ {name} : checkpoint'["best"][f] = checkpoint["best"][f]
      BY <1>2, <1>3, <1>4, <2>2 DEF CheckpointSlots
    <3>2. Wins(run.epoch, run.epoch, validations) /\ bestNll = validations[run.epoch]
      BY <1>1, <2>2 DEF Judged, SavingBest
    <3>3. content = Trained(run.epoch, Batches)
      <4>1. params.finite = TRUE
        BY <1>1, <1>3, <3>2 DEF Validated, Wins, Params
      <4>2. params.applied = run.epoch * Batches
        <5>1. params.applied = (run.epoch - 1) * Batches + Batches /\ Batches \in Nat
          BY <1>1, RunShape DEF Place, Seen
        <5> QED
          BY <1>3, <5>1
      <4>3. params = [applied |-> run.epoch * Batches, finite |-> TRUE]
        <5>1. params = [applied |-> params.applied, finite |-> params.finite]
          BY <1>3 DEF Params
        <5> QED
          BY <4>1, <4>2, <5>1
      <4> QED
        BY <1>7, <4>3 DEF Trained
    <3>4. ASSUME NEW f \in CheckpointFiles, \A i \in DOMAIN Tail(saving.files) : Tail(saving.files)[i] # f
          PROVE  checkpoint'["best"][f] = Trained(run.epoch, Batches)
      <4>1. CASE f = name
        BY <3>1, <3>3, <4>1
      <4>2. CASE f # name
        <5>1. \A i \in DOMAIN saving.files : saving.files[i] # f
          BY <1>4, <3>4, <4>2
        <5> QED
          BY <1>1, <2>2, <3>1, <4>2, <5>1 DEF Judged, SavingBest
      <4> QED
        BY <4>1, <4>2
    <3> QED
      BY <1>1, <1>5, <2>2, <3>2, <3>4 DEF Judged, SavingBest, Batches
  <2> QED
    BY <1>3, <2>1, <2>2 DEF CheckpointSlots
<1> QED
  BY <1>9, <1>10, <1>11 DEF TrainingInv

(* The validation just made beats the best one: it wins.                   *)
LEMMA BetterWins ==
  ASSUME NEW k \in Nat, k >= 1, NEW nll, NEW best, NEW found, NEW batches,
         Earned(k - 1, nll, best, found, batches), found[k] \in Scores,
         \A d \in 1 .. k : found[d] \in Scores \cup {NaN},
         nll = Infinity \/ found[k] < nll
  PROVE  Wins(k, k, found)
<1>1. Scores \subseteq Nat /\ NaN \notin Nat /\ Infinity \notin Nat
  BY TrainingAssumption
<1>0. \A d \in 1 .. k : found[d] # NaN => found[d] \in Nat
  BY <1>1
<1>2. CASE \A d \in 1 .. k - 1 : found[d] = NaN
  <2>1. \A d \in 1 .. k : d = k \/ d \in 1 .. k - 1
    OBVIOUS
  <2>2. \A d \in 1 .. k : found[d] # NaN => d = k
    BY <1>2, <2>1
  <2>3. found[k] \in Nat /\ found[k] # NaN
    <3>1. \A x \in Scores : x \in Nat /\ x # NaN
      BY <1>1, Zenon
    <3> QED
      BY <3>1, Zenon
  <2>4. k \in 1 .. k
    OBVIOUS
  <2> QED
    BY <2>2, <2>3, <2>4 DEF Wins
<1>3. ASSUME NEW w \in 1 .. k - 1, Wins(w, k - 1, found), nll = found[w]
      PROVE  Wins(k, k, found)
  <2>1. w \in 1 .. k /\ found[w] # NaN /\ found[w] \in Nat /\ found[k] \in Nat /\ found[k] < found[w]
    <3>1. w \in 1 .. k /\ found[w] # NaN
      BY <1>3 DEF Wins
    <3>2. found[w] \in Nat /\ found[k] \in Nat
      BY <1>0, <1>1, <3>1
    <3>3. nll # Infinity
      BY <1>1, <1>3, <3>2
    <3> QED
      BY <1>3, <3>1, <3>2, <3>3
  <2>2. \A d \in 1 .. k - 1 : found[d] # NaN => found[d] \in Nat /\ found[w] <= found[d]
    BY <1>0, <1>1, <1>3 DEF Wins
  <2>3. \A d \in 1 .. k : d = k \/ d \in 1 .. k - 1
    OBVIOUS
  <2> QED
    BY <1>1, <2>1, <2>2, <2>3 DEF Wins
<1> QED
  BY <1>2, <1>3 DEF Earned

(* The validation just made does not: the winner so far wins.              *)
LEMMA WorseLoses ==
  ASSUME NEW k \in Nat, k >= 1, NEW nll, NEW best, NEW found, NEW batches,
         Earned(k - 1, nll, best, found, batches),
         \A d \in 1 .. k : found[d] \in Scores \cup {NaN},
         found[k] = NaN \/ (nll # Infinity /\ ~ found[k] < nll)
  PROVE  Earned(k, nll, best, found, batches)
<1>1. Scores \subseteq Nat /\ NaN \notin Nat /\ Infinity \notin Nat
  BY TrainingAssumption
<1>0. \A d \in 1 .. k : found[d] # NaN => found[d] \in Nat
  BY <1>1
<1>2. \A d \in 1 .. k : d = k \/ d \in 1 .. k - 1
  OBVIOUS
<1>3. CASE nll = Infinity /\ best = NoCheckpoint /\ \A d \in 1 .. k - 1 : found[d] = NaN
  BY <1>2, <1>3 DEF Earned
<1>4. ASSUME NEW w \in 1 .. k - 1, Wins(w, k - 1, found), nll = found[w],
             best = [f \in CheckpointFiles |-> Trained(w, batches)]
      PROVE  Earned(k, nll, best, found, batches)
  <2>1. found[w] \in Nat /\ (found[k] # NaN => found[k] \in Nat /\ found[w] <= found[k])
    BY <1>0, <1>1, <1>4 DEF Wins
  <2>2. Wins(w, k, found)
    BY <1>2, <1>4, <2>1 DEF Wins
  <2> QED
    BY <1>4, <2>2 DEF Earned
<1> QED
  BY <1>3, <1>4 DEF Earned

LEMMA SavedKeeps ==
  ASSUME TrainingInv, Saved
  PROVE  TrainingInv'
<1> DEFINE nll == validations[run.epoch]
<1>1. /\ UNCHANGED <<params, pending, validations, checkpoint>> /\ run.pc = "save" /\ saving.files = <<>>
      /\ Typed /\ Place /\ Validated /\ Judged
  BY DEF Saved, In, TrainingInv
<1>2. /\ run.epoch \in Nat /\ run.epoch >= 1 /\ Batches \in Nat /\ run.step <= Batches /\ Epochs \in Nat
  BY <1>1, RunShape
<1>3. run.epoch <= Epochs /\ Len(validations) = run.epoch /\ saving.slot \in CheckpointSlots
  BY <1>1 DEF Place, Validated
<1>4. /\ validations \in Seq(Scores \cup {NaN}) /\ Last(validations) = nll
      /\ \A d \in 1 .. run.epoch : validations[d] \in Scores \cup {NaN}
  BY <1>1, <1>2, <1>3 DEF Typed, Last
<1>5. Scores \subseteq Nat /\ NaN \notin Nat /\ Infinity \notin Nat
  BY TrainingAssumption
<1> HIDE DEF nll
<1>6. CASE saving.slot = "last" /\ Improves(nll)
  <2>1. bestNll' = nll /\ saving' = [slot |-> "best", files |-> SaveOrder] /\ UNCHANGED run
    BY <1>4, <1>6 DEF Saved
  <2>2. /\ saving'.slot = "best" /\ saving'.files = SaveOrder
        /\ saving' = [slot |-> saving'.slot, files |-> saving'.files] /\ saving'.files \in Seq(CheckpointFiles)
    BY <2>1, OrderIsFull
  <2>3. nll \in Scores
    BY <1>2, <1>4, <1>6 DEF Improves, nll
  <2>4. Typed'
    BY <1>1, <2>1, <2>2, <2>3 DEF Typed, Batches
  <2>5. Place' /\ Validated'
    BY <1>1, <2>1, <2>2 DEF Place, Validated, Seen, Batches, CheckpointSlots, Going
  <2>6. Earned(run.epoch - 1, bestNll, checkpoint["best"], validations, Batches)
    BY <1>1, <1>6 DEF Judged, SavingBest, Going
  <2>7. Wins(run.epoch, run.epoch, validations)
    BY <1>2, <1>4, <1>6, <2>3, <2>6, BetterWins DEF Improves, nll
  <2>8. \A f \in CheckpointFiles : ~ \A i \in DOMAIN SaveOrder : SaveOrder[i] # f
    BY OrderIsFull
  <2>9. Judged'
    BY <1>1, <2>1, <2>2, <2>7, <2>8 DEF Judged, SavingBest, nll
  <2> QED
    BY <2>4, <2>5, <2>9 DEF TrainingInv
<1>7. CASE ~ (saving.slot = "last" /\ Improves(nll))
  <2>1. /\ run' = [run EXCEPT !.pc = "epoch", !.epoch = run.epoch + 1]
        /\ saving' = [slot |-> Absent, files |-> <<>>] /\ bestNll' = bestNll
    BY <1>4, <1>7 DEF Saved
  <2>2. run' \in [program : Trainers, corpus : Corpora, pc : Places, epoch : 1 .. Epochs + 1, step : Nat]
        /\ run'.pc = "epoch" /\ run'.step = run.step /\ run'.epoch = run.epoch + 1 /\ Batches' = Batches
    <3>1. PICK next \in 1 .. Epochs + 1 : next = run.epoch + 1
      BY <1>2, <1>3
    <3> QED
      BY <1>1, <2>1, <3>1 DEF Typed, Places, Batches
  <2>3. /\ saving'.files = <<>> /\ saving' = [slot |-> saving'.slot, files |-> saving'.files]
        /\ saving'.files \in Seq(CheckpointFiles)
    BY <2>1
  <2>4. Typed'
    BY <1>1, <2>1, <2>2, <2>3 DEF Typed
  <2>5. params'.applied = Seen(0)'
    <3>1. params.applied = (run.epoch - 1) * Batches + Batches
      BY <1>1 DEF Place, Seen
    <3>2. Seen(0)' = ((run.epoch + 1) - 1) * Batches + 0
      BY <2>2 DEF Seen
    <3> QED
      BY <1>1, <1>2, <3>1, <3>2
  <2>6. Place' /\ Validated'
    <3>1. Batches' # 0 /\ pending' = NoGradient
      BY <1>1, <2>2 DEF Place, Going
    <3>2. Place'
      BY <2>2, <2>5, <3>1 DEF Place
    <3>3. Validated'
      BY <1>1, <1>2, <1>3, <2>2 DEF Validated
    <3> QED
      BY <3>2, <3>3
  <2>7. Earned(run.epoch, bestNll, checkpoint["best"], validations, Batches)
    <3>1. CASE saving.slot = "last"
      <4>1. Earned(run.epoch - 1, bestNll, checkpoint["best"], validations, Batches)
        BY <1>1, <3>1 DEF Judged, SavingBest, Going
      <4>2. nll = NaN \/ (bestNll # Infinity /\ ~ nll < bestNll)
        BY <1>7, <3>1 DEF Improves
      <4> QED
        BY <1>2, <1>4, <4>1, <4>2, WorseLoses DEF nll
    <3>2. CASE saving.slot = "best"
      <4>1. /\ Wins(run.epoch, run.epoch, validations) /\ bestNll = validations[run.epoch]
            /\ \A f \in CheckpointFiles : checkpoint["best"][f] = Trained(run.epoch, Batches)
        BY <1>1, <3>2 DEF Judged, SavingBest
      <4>2. checkpoint["best"] \in [CheckpointFiles -> Content]
        BY <1>1 DEF Typed, CheckpointSlots
      <4>3. checkpoint["best"] = [f \in CheckpointFiles |-> Trained(run.epoch, Batches)]
        BY <4>1, <4>2
      <4> QED
        BY <1>2, <4>1, <4>3 DEF Earned
    <3> QED
      BY <1>3, <3>1, <3>2 DEF CheckpointSlots
  <2>8. Judged'
    <3>1. run'.epoch - 1 = run.epoch
      BY <1>2, <2>2
    <3> QED
      BY <1>1, <2>1, <2>2, <2>7, <3>1 DEF Judged, SavingBest
  <2> QED
    BY <2>4, <2>6, <2>8 DEF TrainingInv
<1> QED
  BY <1>6, <1>7

LEMMA TrainingStep == TrainingInv /\ [TrainingNext]_trainingVars => TrainingInv'
<1> SUFFICES ASSUME TrainingInv, [TrainingNext]_trainingVars PROVE TrainingInv'
  OBVIOUS
<1>1. CASE Killed
  BY <1>1, Stopping DEF Killed
<1>2. CASE UNCHANGED trainingVars
  <2>1. UNCHANGED <<run, params, pending, bestNll, validations, saving, checkpoint>>
    BY <1>2 DEF trainingVars
  <2>2. Typed'
    BY <2>1 DEF TrainingInv, Typed, Batches
  <2>3. Place' /\ Validated'
    BY <2>1 DEF TrainingInv, Place, Validated, Accumulated, Seen, Batches
  <2>4. Judged'
    BY <2>1 DEF TrainingInv, Judged, SavingBest, Batches
  <2> QED
    BY <2>2, <2>3, <2>4 DEF TrainingInv
<1> QED
  BY <1>1, <1>2, StartKeeps, BeginEpochKeeps, BackwardKeeps, ApplyUpdateKeeps, ValidateKeeps, SaveFileKeeps,
     SavedKeeps DEF TrainingNext

LEMMA TrainingAlways == TrainingSpec => []TrainingInv
BY TrainingStarts, TrainingStep, PTL DEF TrainingSpec

(* Types, and that no more than --grad-accum batches are ever accumulated. *)
THEOREM TrainingTypes == TrainingSpec => []TrainingTypeOK
<1>1. TrainingInv => TrainingTypeOK
  <2> SUFFICES ASSUME TrainingInv PROVE TrainingTypeOK
    OBVIOUS
  <2>1. Typed
    BY DEF TrainingInv
  <2>2. run.step \in 0 .. run.corpus.train /\ run.epoch \in 1 .. Epochs + 1
    BY <2>1, RunShape DEF Batches
  <2>3. pending \in [count : 0 .. GradAccum, finite : BOOLEAN]
    BY <2>1, RunShape DEF Typed
  <2> QED
    BY <2>1, <2>2, <2>3 DEF Typed, TrainingTypeOK, Params
<1> QED
  BY <1>1, TrainingAlways, PTL

(* The winner of the invariant is the one the property chooses.            *)
LEMMA TheWinner ==
  ASSUME Typed, NEW w, Wins(w, Len(validations), validations)
  PROVE  Winner = w
<1> DEFINE finite == {e \in DOMAIN validations : validations[e] # NaN}
           best   == {e \in finite : \A d \in finite : validations[e] <= validations[d]}
<1>1. /\ DOMAIN validations = 1 .. Len(validations) /\ Len(validations) \in Nat
      /\ \A d \in DOMAIN validations : validations[d] \in Scores \cup {NaN}
  BY DEF Typed
<1>2. \A d \in finite : validations[d] \in Nat
  BY <1>1, TrainingAssumption
<1>3. w \in finite /\ \A d \in finite : validations[w] <= validations[d] /\ (d < w => validations[w] < validations[d])
  BY <1>1 DEF Wins
<1>4. w \in best
  BY <1>3
<1>5. \A d \in best : d \in finite /\ validations[d] <= validations[w]
  BY <1>3
<1>6. \A d \in best : w <= d
  BY <1>1, <1>2, <1>3, <1>5
<1>7. \A e \in best : (\A d \in best : e <= d) => e = w
  BY <1>1, <1>3, <1>4, <1>6
<1>8. Winner = IF best = {} THEN 0 ELSE CHOOSE e \in best : \A d \in best : e <= d
  BY DEF Winner
<1> HIDE DEF best, finite
<1> QED
  BY <1>4, <1>6, <1>7, <1>8

(* Whatever batches have a non-finite gradient and wherever the process is *)
(* killed, of a run that ends "best" has all its files from the first      *)
(* epoch with the lowest validation, with every batch of the epochs up to  *)
(* it applied exactly once (main of train.py and train_causal.py).         *)
THEOREM BestIsTheWinners == TrainingSpec => []BestIsEarned
<1>1. TrainingInv => BestIsEarned
  <2> SUFFICES ASSUME TrainingInv, run.pc = "done" PROVE BestIsEarned
    BY DEF BestIsEarned, In
  <2> DEFINE k == Len(validations)
  <2>1. Typed /\ k = run.epoch - 1 /\ run.epoch - 1 \in Nat
    BY RunShape DEF TrainingInv, Validated, Going
  <2>2. Earned(k, bestNll, checkpoint["best"], validations, Batches)
    BY <2>1 DEF TrainingInv, Judged, SavingBest, Going
  <2>3. CASE checkpoint["best"] = NoCheckpoint /\ \A d \in 1 .. k : validations[d] = NaN
    <3>1. {e \in DOMAIN validations : validations[e] # NaN} = {}
      BY <2>1, <2>3 DEF Typed
    <3>2. Winner = 0
      BY <3>1 DEF Winner
    <3> QED
      BY <2>3, <3>2 DEF BestIsEarned
  <2>4. ASSUME NEW w \in 1 .. k, Wins(w, k, validations),
               checkpoint["best"] = [f \in CheckpointFiles |-> Trained(w, Batches)]
        PROVE  BestIsEarned
    <3>1. Winner = w /\ w # 0
      BY <2>1, <2>4, TheWinner
    <3> QED
      BY <2>4, <3>1 DEF BestIsEarned, Trained, Batches
  <2> QED
    BY <2>2, <2>3, <2>4 DEF Earned
<1> QED
  BY <1>1, TrainingAlways, PTL
---------------------------------------------------------------------------
(* The programs side by side                                               *)


all == <<system, vars, captureVars, trainingVars, datasetVars, labelVars>>

(* A step of the whole is a step of one program, and leaves the others     *)
(* where they are.                                                         *)
LEMMA EachProgramSteps ==
  ASSUME [MCNext]_all
  PROVE  /\ [AdvisoryNext]_vars /\ [CaptureNext]_captureVars /\ [TrainingNext]_trainingVars
         /\ [DatasetsNext]_datasetVars /\ [LabelsNext]_labelVars
<1>1. CASE UNCHANGED all
  BY <1>1 DEF all
<1>2. CASE Advisory /\ AdvisoryStep /\ UNCHANGED <<captureVars, trainingVars, datasetVars, labelVars>>
  BY <1>2 DEF AdvisoryStep, AdvisoryNext
<1> QED
  BY <1>1, <1>2 DEF MCNext

(* The composition adds nothing to the behaviours of a program: what is    *)
(* proved of its specification holds of it beside the others.              *)
THEOREM SideBySide ==
  MCSpec => AdvisorySpec /\ CaptureSpec /\ TrainingSpec /\ DatasetsSpec /\ LabelsSpec
<1>1. MCInit => /\ HeartbeatInit /\ ProbeInit /\ CaptureInit
                /\ TrainingInit /\ DatasetsInit /\ LabelsInit
  BY DEF MCInit
<1>2. [MCNext]_all => /\ [AdvisoryNext]_vars /\ [CaptureNext]_captureVars /\ [TrainingNext]_trainingVars
                      /\ [DatasetsNext]_datasetVars /\ [LabelsNext]_labelVars
  BY EachProgramSteps
<1>3. MCSpec => MCInit /\ [][MCNext]_all
  BY DEF MCSpec, all
<1> QED
  BY <1>1, <1>2, <1>3, PTL DEF AdvisorySpec, CaptureSpec, TrainingSpec, DatasetsSpec, LabelsSpec

(* The types of all the programs, whatever the constants.                  *)
THEOREM ServiceTypes == MCSpec => []MCTypeOK
<1>1. ProbeTypeOK /\ CaptureTypeOK /\ TrainingTypeOK /\ DatasetsTypeOK /\ LabelsTypeOK => MCTypeOK
  BY DEF MCTypeOK
<1> QED
  BY <1>1, SideBySide, ProbeTypes, CaptureTypes, TrainingTypes, DatasetsTypes, LabelsTypes, PTL

(* And what else the run checks of them.                                   *)
THEOREM ServicesHold ==
  MCSpec => [](/\ ReceiptWithinSnapshot /\ FrameIsMine /\ WholeFrameAccepted
               /\ BestIsEarned /\ PrepareManifestIsTrue /\ OnlyBridge)
BY SideBySide, ReceiptsStayWithin, FramesAreOwn, WriterAndReaderAgree, BestIsTheWinners,
   ManifestIsNeverStale, AdjudicationIsTheOnlyBridge, PTL
=============================================================================
