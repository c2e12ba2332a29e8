----------------------------- MODULE MCServices -----------------------------
(***************************************************************************)
(* The programs that work on files, side by side: a behaviour is the work  *)
(* of one of them, while the others stay in their initial states.          *)
(***************************************************************************)
EXTENDS HarnessProbe, BonsaiCapture, Training, Datasets, Labels

CONSTANTS user, r1, r2, h1, h2, n1, s1, s2, q1, q2, w1, w2, c1, c2

MCFleets == {[count |-> 1, handles |-> <<h1>>], [count |-> 2, handles |-> <<h2, h1>>],
             [count |-> 2, handles |-> <<h1>>]}
MCNoteLists == {<<n1>>}
MCQualifications == {None, <<h1>>}

MCQuestion(name, options) == [name |-> name, options |-> options]
MCRecord(state, tokens, questions) == [state |-> state, tokens |-> tokens, questions |-> questions]

(* Two records alike but for their state, a larger one, one that does not  *)
(* fit the context and one with an empty question name.                    *)
MCRecords ==
  {MCRecord(s1, 1, <<MCQuestion(q1, 2)>>), MCRecord(s2, 1, <<MCQuestion(q1, 2)>>),
   MCRecord(s1, 2, <<MCQuestion(q1, 2), MCQuestion(q2, 3)>>),
   MCRecord(s1, 3, <<MCQuestion(q2, 2)>>), MCRecord(s1, 1, <<MCQuestion(Nothing, 2)>>)}

MCModels == {[weights |-> w1, hidden |-> 2, layers |-> 4], [weights |-> w2, hidden |-> 2, layers |-> 4],
             [weights |-> w2, hidden |-> 3, layers |-> 4]}

MCCorpora == [train : {0, 1, 3}, valid : {0, 1}, labelled : SUBSET {"train", "valid"}]
---------------------------------------------------------------------------
VARIABLE system     \* the program at work

MCInit ==
  /\ system \in {"operator", "probes", "capture", "training", "datasets", "labels"}
  /\ HeartbeatInit /\ ProbeInit /\ CaptureInit /\ TrainingInit /\ DatasetsInit /\ LabelsInit
  /\ system # "capture" => model = (CHOOSE m \in Models : TRUE) /\ revision = 1 /\ build = PromptContract
  /\ system # "training" => run.program = "encoder" /\ run.corpus = (CHOOSE c \in Corpora : TRUE)

Advisory == system \in {"operator", "probes"}

(* The operator's sessions and the probes share nothing but the snapshot   *)
(* file, which neither of them writes.                                     *)
AdvisoryStep ==
  \/ World /\ UNCHANGED probeVars
  \/ system = "operator" /\ OperatorNext /\ UNCHANGED probeVars
  \/ system = "probes" /\ ProbeNext

MCNext ==
  /\ UNCHANGED system
  /\ \/ Advisory /\ AdvisoryStep /\ UNCHANGED <<captureVars, trainingVars, datasetVars, labelVars>>
     \/ system = "capture" /\ CaptureNext /\ UNCHANGED <<vars, trainingVars, datasetVars, labelVars>>
     \/ system = "training" /\ TrainingNext /\ UNCHANGED <<vars, captureVars, datasetVars, labelVars>>
     \/ system = "datasets" /\ DatasetsNext /\ UNCHANGED <<vars, captureVars, trainingVars, labelVars>>
     \/ system = "labels" /\ LabelsNext /\ UNCHANGED <<vars, captureVars, trainingVars, datasetVars>>

MCSpec == MCInit /\ [][MCNext]_<<system, vars, captureVars, trainingVars, datasetVars, labelVars>>

MCTypeOK == ProbeTypeOK /\ CaptureTypeOK /\ TrainingTypeOK /\ DatasetsTypeOK /\ LabelsTypeOK
=============================================================================
