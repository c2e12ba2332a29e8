---------------------------- MODULE BonsaiCapture ----------------------------
(***************************************************************************)
(* One activation capture: the Python provider pins the model file and the *)
(* runtime checkout, starts the native bridge, and reads the frame the     *)
(* bridge left at --output.  The bridge is a process of its own: it loads  *)
(* the model later than the provider hashed it, may fail before, while or  *)
(* after it writes, and outlives a provider that is killed.                *)
(*                                                                         *)
(* The numbers in a tensor stand for the prompts and the weights they were *)
(* computed from; shapes, sizes and option slices are kept.                *)
(***************************************************************************)
EXTENDS Integers, Sequences, FiniteSets, SequencesExt

CONSTANTS
  Nothing,
  Captures,      \* runs of the capture command, all with the same --output
  Records,       \* [state, tokens, questions]: questions a sequence of [name, options]
  Models,        \* contents of the GGUF file: [weights, hidden, layers]
  Revisions,     \* heads of the runtime checkout
  Builds,        \* prompt contracts a bridge executable may have been built with
  PromptContract,
  Taps, Hidden, Layers, \* the decision contract: captures per token, width, layers
  Context,       \* --ctx
  Float,         \* bytes of a float32
  MaxChanges     \* bound on the changes of the model file and the checkout

ASSUME CaptureAssumption ==
  /\ Taps \in Nat \ {0} /\ Hidden \in Nat \ {0} /\ Layers \in Nat \ {0}
  /\ Float \in Nat \ {0} /\ Context \in Nat /\ MaxChanges \in Nat

(* A record has a question and every question at least two options, or     *)
(* DecisionRecord and QuestionSpec refuse it.                              *)
ASSUME RecordsAssumption ==
  \A record \in Records :
    /\ record.tokens \in Nat
    /\ record.questions \in Seq(Range(record.questions)) /\ record.questions # <<>>
    /\ \A i \in DOMAIN record.questions : record.questions[i].options \in Nat \ {0, 1}

VARIABLES
  model,         \* the model file
  revision,      \* the head of the runtime checkout
  changes,       \* the number of times either was changed
  build,         \* the bridge executable
  capture,       \* capture -> the state of its Python process
  bridge,        \* capture -> the state of its native process
  output         \* the frame file: a header and the chunks written after it

captureVars == <<model, revision, changes, build, capture, bridge, output>>

NoFrame   == [by |-> Nothing, header |-> Nothing, parts |-> <<>>, data |-> Nothing]
NoCapture == [pc |-> "idle", record |-> Nothing, sha |-> Nothing, revision |-> Nothing, frame |-> NoFrame]
NoBridge  == [pc |-> "none", loaded |-> Nothing, code |-> 0]

CaptureInit ==
  /\ model \in Models
  /\ revision \in Revisions
  /\ changes = 0
  /\ build \in Builds
  /\ capture = [c \in Captures |-> NoCapture]
  /\ bridge = [c \in Captures |-> NoBridge]
  /\ output = NoFrame

Become(c, pc) == capture' = [capture EXCEPT ![c].pc = pc]
BridgeIs(c, pc) == bridge' = [bridge EXCEPT ![c].pc = pc]
Exit(c, code) == bridge' = [bridge EXCEPT ![c].pc = "exited", ![c].code = code]
---------------------------------------------------------------------------
(* The frame *)

(* How many options the first n questions have. *)
OptionOffset(questions) ==
  LET offset[n \in 0 .. Len(questions)] ==
        IF n = 0 THEN 0 ELSE offset[n - 1] + questions[n].options
  IN offset

OptionCount(questions) == OptionOffset(questions)[Len(questions)]

(* mutant: every question starts at the first option *)
GroupedFromZero(questions) ==
  [i \in DOMAIN questions |-> [question |-> questions[i], start |-> 0, end |-> OptionOffset(questions)[i]]]

Grouped(questions) ==
  [i \in DOMAIN questions |->
     [question |-> questions[i], start |-> OptionOffset(questions)[i - 1], end |-> OptionOffset(questions)[i]]]

Size(shape) ==
  LET product[n \in 0 .. Len(shape)] == IF n = 0 THEN 1 ELSE product[n - 1] * shape[n]
  IN product[Len(shape)]

Chunks == {"state", "state_mask", "options", "option_mask"}

(* Shapes and byte counts as the bridge writes them into the header. *)
Header(record, sha, head, contract) ==
  LET options == OptionCount(record.questions)
      shape   == [state |-> <<1, Taps, record.tokens, Hidden>>, state_mask |-> <<1, record.tokens>>,
                  options |-> <<1, options, Taps, Hidden>>, option_mask |-> <<1, options>>]
  IN [sha |-> sha, revision |-> head, contract |-> contract,
      shape |-> shape, groups |-> Grouped(record.questions),
      bytes |-> [state |-> Taps * record.tokens * Hidden * Float, state_mask |-> record.tokens,
                 options |-> options * Taps * Hidden * Float, option_mask |-> options]]

(* The order and the sizes in which the tensors follow the header. *)
Written(record) ==
  LET options == OptionCount(record.questions)
  IN << <<"header", 1>>, <<"state", Taps * (record.tokens * Hidden * Float)>>,
        <<"state_mask", record.tokens>>, <<"options", options * (Taps * (Hidden * Float))>>,
        <<"option_mask", options>> >>

(* read_activation_frame: every part is there in full and fits its shape. *)
Readable(file) ==
  \A i \in 1 .. 4 :
    LET k == <<"state", "state_mask", "options", "option_mask">>[i]
    IN /\ i + 1 \in DOMAIN file.parts
       /\ file.parts[i + 1][2] = file.header.bytes[k]
       /\ file.header.bytes[k] = Size(file.header.shape[k]) * IF k \in {"state", "options"} THEN Float ELSE 1

ValidGroup(group, width) ==
  /\ group.question.name # Nothing
  /\ 0 <= group.start /\ group.start < group.end /\ group.end <= width
  /\ group.question.options = group.end - group.start

ValidFrame(header) ==
  LET s == header.shape.state
      o == header.shape.options
  IN /\ Len(s) = 4 /\ Len(o) = 4
     /\ o[1] = s[1] /\ o[3] = s[2] /\ o[4] = s[4]
     /\ header.shape.state_mask = <<s[1], s[3]>>
     /\ header.shape.option_mask = <<o[1], o[2]>>
     /\ \A i \in DOMAIN header.groups : ValidGroup(header.groups[i], o[2])

(* validate_frame: what the frame says of itself against the provider. *)
Expected(header, c) ==
  /\ header.sha = capture[c].sha
  /\ header.revision = capture[c].revision
  /\ header.contract = PromptContract
  /\ header.shape.state[4] = Hidden
  /\ header.shape.state[2] = Taps
  /\ [i \in DOMAIN header.groups |-> header.groups[i].question] = capture[c].record.questions

Accepted(file, c) == Readable(file) /\ ValidFrame(file.header) /\ Expected(file.header, c)
---------------------------------------------------------------------------
(* The provider *)

Busy == \E c \in Captures : capture[c].pc \in {"pinned", "waiting"} \/ bridge[c].pc \notin {"none", "exited"}

(* The model is hashed and the checkout is asked for its head. *)
Construct(c) ==
  /\ capture[c].pc = "idle"
  /\ ~Busy
  /\ \E record \in Records :
       capture' = [capture EXCEPT ![c] =
         [pc |-> "pinned", record |-> record, sha |-> model, revision |-> revision, frame |-> NoFrame]]
  /\ UNCHANGED <<model, revision, changes, build, bridge, output>>

LaunchBridge(c) ==
  /\ capture[c].pc = "pinned"
  /\ Become(c, "waiting")
  /\ IF \A i \in DOMAIN capture[c].record.questions : capture[c].record.questions[i].name # Nothing
     THEN BridgeIs(c, "loading") ELSE Exit(c, 1)
  /\ UNCHANGED <<model, revision, changes, build, output>>

(* mutant: the exit code of the bridge is not looked at *)
CollectFrameUnchecked(c) ==
  /\ capture[c].pc = "waiting" /\ bridge[c].pc = "exited"
  /\ IF Accepted(output, c)
     THEN capture' = [capture EXCEPT ![c].pc = "validated", ![c].frame = output]
     ELSE Become(c, "failed")
  /\ UNCHANGED <<model, revision, changes, build, bridge, output>>

CollectFrame(c) ==
  /\ capture[c].pc = "waiting" /\ bridge[c].pc = "exited"
  /\ IF bridge[c].code = 0 /\ Accepted(output, c)
     THEN capture' = [capture EXCEPT ![c].pc = "validated", ![c].frame = output]
     ELSE Become(c, "failed")
  /\ UNCHANGED <<model, revision, changes, build, bridge, output>>

RecordFields == {"state", "questions", "targets", "metadata"}

(* capture_receipt reads the source and the metadata of the record. *)
ReportCapture(c) ==
  /\ capture[c].pc = "validated"
  /\ Become(c, IF {"source", "metadata"} \subseteq RecordFields THEN "reported" ELSE "raised")
  /\ UNCHANGED <<model, revision, changes, build, bridge, output>>

KillCapture(c) ==
  /\ capture[c].pc \in {"pinned", "waiting", "validated"}
  /\ Become(c, "killed")
  /\ UNCHANGED <<model, revision, changes, build, bridge, output>>
---------------------------------------------------------------------------
(* The bridge *)

LoadModel(c) ==
  /\ bridge[c].pc = "loading"
  /\ IF model.hidden = Hidden /\ model.layers = Layers
     THEN bridge' = [bridge EXCEPT ![c].pc = "decoding", ![c].loaded = model]
     ELSE Exit(c, 1)
  /\ UNCHANGED <<model, revision, changes, build, capture, output>>

Decode(c) ==
  /\ bridge[c].pc = "decoding"
  /\ \/ capture[c].record.tokens \in 1 .. Context /\ BridgeIs(c, "opening")
     \/ Exit(c, 1)
  /\ UNCHANGED <<model, revision, changes, build, capture, output>>

OpenOutput(c) ==
  /\ bridge[c].pc = "opening"
  /\ output' = [by |-> c, header |-> Header(capture[c].record, capture[c].sha, capture[c].revision, build), parts |-> <<>>,
                data |-> [record |-> capture[c].record, model |-> bridge[c].loaded]]
  /\ BridgeIs(c, "writing")
  /\ UNCHANGED <<model, revision, changes, build, capture>>

WritePart(c) ==
  /\ bridge[c].pc = "writing"
  /\ Len(output.parts) < Len(Written(capture[c].record))
  /\ output' = [output EXCEPT !.parts = Append(@, Written(capture[c].record)[Len(@) + 1])]
  /\ UNCHANGED <<model, revision, changes, build, capture, bridge>>

(* The state of the stream is checked before its last buffer is flushed, so *)
(* that the last part may be lost and the exit code still be 0.             *)
FinishFrame(c) ==
  /\ bridge[c].pc = "writing"
  /\ Len(output.parts) = Len(Written(capture[c].record))
  /\ output' \in {output, [output EXCEPT !.parts = Front(@)]}
  /\ Exit(c, 0)
  /\ UNCHANGED <<model, revision, changes, build, capture>>

(* A failed write, or a signal. *)
BridgeDies(c) ==
  /\ bridge[c].pc \in {"loading", "decoding", "opening", "writing"}
  /\ Exit(c, 1)
  /\ UNCHANGED <<model, revision, changes, build, capture, output>>

ReplaceUnderneath ==
  /\ changes < MaxChanges
  /\ changes' = changes + 1
  /\ \/ model' \in Models \ {model} /\ UNCHANGED revision
     \/ revision' \in Revisions \ {revision} /\ UNCHANGED model
  /\ UNCHANGED <<build, capture, bridge, output>>

CaptureNext ==
  \/ ReplaceUnderneath
  \/ \E c \in Captures :
       \/ Construct(c) \/ LaunchBridge(c) \/ CollectFrame(c) \/ ReportCapture(c) \/ KillCapture(c)
       \/ LoadModel(c) \/ Decode(c) \/ OpenOutput(c) \/ WritePart(c) \/ FinishFrame(c) \/ BridgeDies(c)

CaptureSpec == CaptureInit /\ [][CaptureNext]_captureVars
---------------------------------------------------------------------------
CaptureTypeOK ==
  /\ model \in Models /\ revision \in Revisions /\ changes \in 0 .. MaxChanges /\ build \in Builds
  /\ \A c \in Captures :
       /\ capture[c].pc \in {"idle", "pinned", "waiting", "validated", "reported", "raised", "failed", "killed"}
       /\ capture[c].record \in Records \cup {Nothing} /\ capture[c].sha \in Models \cup {Nothing}
       /\ capture[c].revision \in Revisions \cup {Nothing}
       /\ bridge[c].pc \in {"none", "loading", "decoding", "opening", "writing", "exited"}
       /\ bridge[c].loaded \in Models \cup {Nothing} /\ bridge[c].code \in {0, 1}
  /\ output.by \in Captures \cup {Nothing} /\ Len(output.parts) \in 0 .. 5

(* A frame a capture returns was computed by its own bridge from its own   *)
(* record, in full, whatever an earlier capture, a killed one or a bridge  *)
(* that failed left at the same path.                                      *)
FrameIsMine ==
  \A c \in Captures : capture[c].frame # NoFrame =>
    /\ capture[c].frame.by = c
    /\ capture[c].frame.data.record = capture[c].record
    /\ Len(capture[c].frame.parts) = Len(Written(capture[c].record))

(* Writer and reader agree on the format: a frame that a bridge of the     *)
(* right build wrote to the end is never refused, whatever the numbers of  *)
(* questions, options and tokens.                                          *)
WholeFrameAccepted ==
  \A c \in Captures :
    /\ capture[c].pc = "waiting" /\ bridge[c].pc = "exited" /\ bridge[c].code = 0
    /\ Len(output.parts) = Len(Written(capture[c].record)) /\ build = PromptContract
    => Accepted(output, c)

(* A validated frame "with exact Bonsai GGUF SHA, exact PrismML llama.cpp   *)
(* SHA" ends in a receipt: a capture fails before its frame is validated   *)
(* or, if nobody kills it, reports.                                        *)
ValidatedIsReported == \A c \in Captures : capture[c].pc # "raised"
=============================================================================
