------------------------------ MODULE Training ------------------------------
(***************************************************************************)
(* The two training commands: epochs of batches whose gradients are        *)
(* accumulated, clipped and applied, a validation after each epoch, and    *)
(* the checkpoints "last" and "best", each written file by file.  A        *)
(* gradient may be non-finite, and the process may be killed at any point. *)
(*                                                                         *)
(* Parameters stand for the batches applied to them and for whether they   *)
(* are finite; the negative log-likelihood is an integer, or NaN.          *)
(***************************************************************************)
EXTENDS Integers, Sequences, FiniteSets, SequencesExt

CONSTANTS
  NaN, Infinity, Absent,
  Corpora,      \* [train, valid : batches of the two files, labelled : those with a label in every batch]
  Scores,       \* the negative log-likelihoods a validation may find
  Epochs,       \* --epochs
  GradAccum     \* --grad-accum

ASSUME TrainingAssumption ==
  /\ \A c \in Corpora : c.train \in Nat /\ c.valid \in Nat
  /\ Epochs \in Nat \ {0} /\ GradAccum \in Nat \ {0}
  /\ Scores \subseteq Nat /\ NaN \notin Nat /\ Infinity \notin Nat

Trainers == {"encoder", "causal"}
CheckpointFiles    == {"config", "weights", "tokenizer"}
CheckpointSlots    == {"last", "best"}

VARIABLES
  run,          \* the process: its program, its place and its position in the loop
  params,       \* [applied : batches, finite : BOOLEAN]
  pending,      \* gradients accumulated and not applied: [count, finite]
  bestNll,
  validations,  \* what each epoch printed
  saving,       \* the files of the checkpoint still to be written, and its slot
  checkpoint    \* slot -> file -> the epoch and the parameters written, or Absent

trainingVars == <<run, params, pending, bestNll, validations, saving, checkpoint>>

NoGradient == [count |-> 0, finite |-> TRUE]
NoCheckpoint      == [f \in CheckpointFiles |-> Absent]

TrainingInit ==
  /\ \E program \in Trainers, corpus \in Corpora :
       run = [program |-> program, corpus |-> corpus, pc |-> "start", epoch |-> 1, step |-> 0]
  /\ params = [applied |-> 0, finite |-> TRUE]
  /\ pending = NoGradient
  /\ bestNll = Infinity
  /\ validations = <<>>
  /\ saving = [slot |-> Absent, files |-> <<>>]
  /\ checkpoint = [s \in CheckpointSlots |-> NoCheckpoint]

In(pc) == run.pc = pc

(* An empty corpus is refused: it would leave a checkpoint of nothing. *)
StartTraining ==
  /\ In("start")
  /\ run' = [run EXCEPT !.pc = IF run.corpus.train = 0 \/ run.corpus.valid = 0 THEN "refused" ELSE "epoch"]
  /\ UNCHANGED <<params, pending, bestNll, validations, saving, checkpoint>>

(* Only the encoder program drops what the last epoch left accumulated. *)
BeginEpoch ==
  /\ In("epoch")
  /\ run' = [run EXCEPT !.pc = IF run.epoch > Epochs THEN "done" ELSE "batch", !.step = 0]
  /\ pending' = IF run.program = "encoder" THEN NoGradient ELSE pending
  /\ UNCHANGED <<params, bestNll, validations, saving, checkpoint>>

(* batch_loss raises on a batch without a label. *)
Backward ==
  /\ In("batch")
  /\ IF "train" \in run.corpus.labelled
     THEN /\ \E finite \in BOOLEAN :
               pending' = [count |-> pending.count + 1,
                           finite |-> pending.finite /\ params.finite /\ finite]
          /\ run' = [run EXCEPT !.pc = "update", !.step = @ + 1]
     ELSE run' = [run EXCEPT !.pc = "raised"] /\ UNCHANGED pending
  /\ UNCHANGED <<params, bestNll, validations, saving, checkpoint>>

(* mutant: the batches after the last full group are left out *)
UpdateDueWhenFull == run.step % GradAccum = 0

UpdateDue == run.step % GradAccum = 0 \/ run.step = run.corpus.train

(* require_finite_training_step, which only the encoder program calls. *)
Poisoned == run.program = "encoder" /\ ~pending.finite

AfterStep == IF run.step = run.corpus.train THEN "validate" ELSE "batch"

ApplyUpdate ==
  /\ In("update")
  /\ IF UpdateDue
     THEN IF Poisoned
          THEN run' = [run EXCEPT !.pc = "raised"] /\ UNCHANGED <<params, pending>>
          ELSE /\ params' = [applied |-> params.applied + pending.count,
                             finite |-> params.finite /\ pending.finite]
               /\ pending' = NoGradient
               /\ run' = [run EXCEPT !.pc = AfterStep]
     ELSE run' = [run EXCEPT !.pc = AfterStep] /\ UNCHANGED <<params, pending>>
  /\ UNCHANGED <<bestNll, validations, saving, checkpoint>>

(* The order in which a checkpoint is written. *)
SaveOrder ==
  IF run.program = "encoder" THEN <<"config", "weights", "tokenizer">>
                             ELSE <<"weights", "tokenizer", "config">>

Validate ==
  /\ In("validate")
  /\ IF "valid" \notin run.corpus.labelled
     THEN run' = [run EXCEPT !.pc = "raised"] /\ UNCHANGED <<validations, saving>>
     ELSE /\ \E nll \in IF params.finite THEN Scores ELSE {NaN} :
               validations' = Append(validations, nll)
          /\ saving' = [slot |-> "last", files |-> SaveOrder]
          /\ run' = [run EXCEPT !.pc = "save"]
  /\ UNCHANGED <<params, pending, bestNll, checkpoint>>

SaveFile ==
  /\ In("save") /\ saving.files # <<>>
  /\ checkpoint' = [checkpoint EXCEPT ![saving.slot][Head(saving.files)] =
                      [epoch |-> run.epoch, params |-> params]]
  /\ saving' = [saving EXCEPT !.files = Tail(@)]
  /\ UNCHANGED <<run, params, pending, bestNll, validations>>

(* NaN is below nothing. *)
Improves(nll) == nll # NaN /\ (bestNll = Infinity \/ nll < bestNll)

Saved ==
  /\ In("save") /\ saving.files = <<>>
  /\ IF saving.slot = "last" /\ Improves(Last(validations))
     THEN /\ bestNll' = Last(validations)
          /\ saving' = [slot |-> "best", files |-> SaveOrder]
          /\ UNCHANGED run
     ELSE /\ run' = [run EXCEPT !.pc = "epoch", !.epoch = @ + 1]
          /\ saving' = [slot |-> Absent, files |-> <<>>]
          /\ UNCHANGED bestNll
  /\ UNCHANGED <<params, pending, validations, checkpoint>>

Killed ==
  /\ run.pc \notin {"refused", "raised", "done", "killed"}
  /\ run' = [run EXCEPT !.pc = "killed"]
  /\ UNCHANGED <<params, pending, bestNll, validations, saving, checkpoint>>

TrainingNext ==
  \/ StartTraining \/ BeginEpoch \/ Backward \/ ApplyUpdate \/ Validate \/ SaveFile \/ Saved \/ Killed

TrainingSpec == TrainingInit /\ [][TrainingNext]_trainingVars
---------------------------------------------------------------------------
TrainingTypeOK ==
  /\ run.program \in Trainers /\ run.corpus \in Corpora
  /\ run.epoch \in 1 .. Epochs + 1 /\ run.step \in 0 .. run.corpus.train
  /\ params \in [applied : Nat, finite : BOOLEAN]
  /\ pending \in [count : 0 .. GradAccum, finite : BOOLEAN]
  /\ bestNll \in Scores \cup {Infinity}
  /\ validations \in Seq(Scores \cup {NaN})
  /\ \A s \in CheckpointSlots : DOMAIN checkpoint[s] = CheckpointFiles

(* The first epoch with the lowest finite validation, or 0. *)
Winner ==
  LET finite == {e \in DOMAIN validations : validations[e] # NaN}
      best   == {e \in finite : \A d \in finite : validations[e] <= validations[d]}
  IN IF best = {} THEN 0 ELSE CHOOSE e \in best : \A d \in best : e <= d

(* Of a run that ended by itself, "best" holds the first epoch with the    *)
(* lowest validation, all its files from that epoch, with every batch of   *)
(* the epochs up to it applied exactly once; and nothing where no epoch    *)
(* could be told.                                                          *)
BestIsEarned ==
  In("done") =>
    checkpoint["best"] =
      IF Winner = 0 THEN NoCheckpoint
      ELSE [f \in CheckpointFiles |-> [epoch |-> Winner,
              params |-> [applied |-> Winner * run.corpus.train, finite |-> TRUE]]]

=============================================================================
