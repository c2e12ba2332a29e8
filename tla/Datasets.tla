------------------------------ MODULE Datasets ------------------------------
(***************************************************************************)
(* The commands that write datasets: which files each of them removes,     *)
(* writes, reads back for a manifest and seals, in which order, and what   *)
(* is left when one is killed.  Only `prepare` refuses or clears an old    *)
(* output; the others write over it.                                       *)
(*                                                                         *)
(* A file stands for the run that wrote it and for whether it is whole.    *)
(***************************************************************************)
EXTENDS Integers, Sequences, FiniteSets, SequencesExt

CONSTANTS
  NoFile,
  Runs,          \* executions of the commands, one at a time
  Programs       \* the commands they may execute

ASSUME ProgramsAssumption ==
  /\ "prepare" \in Programs
  /\ Programs \subseteq {"prepare", "split", "mix", "import", "adjudicate", "review", "label"}

(* A file is named with the directory or prefix it is written under. *)
Dump(d, f) == [op |-> "dump", file |-> <<d, f>>]
Hash(d, f) == [op |-> "hash", file |-> <<d, f>>]
Seal(d, f) == [op |-> "seal", file |-> <<d, f>>]
Jot(d, f)  == [op |-> "jot",  file |-> <<d, f>>]

(* The splits are dumped and hashed one by one, the source is hashed at    *)
(* the end, and the manifest replaces the file atomically.                 *)
PreparePlan ==
  << Dump("prepare", "source"),
     Dump("prepare", "train"),       Hash("prepare", "train"),
     Dump("prepare", "validation"),  Hash("prepare", "validation"),
     Dump("prepare", "calibration"), Hash("prepare", "calibration"),
     Dump("prepare", "test"),        Hash("prepare", "test"),
     Hash("prepare", "source"), Seal("prepare", "manifest") >>

SplitPlan ==
  << Dump("split", "train"),       Hash("split", "train"),
     Dump("split", "validation"),  Hash("split", "validation"),
     Dump("split", "calibration"), Hash("split", "calibration"),
     Dump("split", "test"),        Hash("split", "test"), Jot("split", "manifest") >>

MixPlan == <<Dump("mix", "records"), Hash("mix", "records"), Jot("mix", "manifest"), Jot("mix", "composition")>>

(* import, adjudicate, review *)
RecordsPlan(d) == <<Dump(d, "records"), Hash(d, "records"), Jot(d, "manifest")>>

LabelPlan == <<Dump("label", "records")>>

Plan(program) ==
  CASE program = "prepare" -> PreparePlan
    [] program = "split"   -> SplitPlan
    [] program = "mix"     -> MixPlan
    [] program \in {"import", "adjudicate", "review"} -> RecordsPlan(program)
    [] program = "label"   -> LabelPlan

(* mutant: --force clears the data and keeps the manifest *)
RemovableData ==
  [i \in 1 .. 5 |-> <<"prepare", <<"source", "train", "validation", "calibration", "test">>[i]>>]

(* _EXPECTED_FILES, in the order in which --force removes them. *)
Removable ==
  [i \in 1 .. 6 |->
     <<"prepare", <<"source", "train", "validation", "calibration", "test", "manifest">>[i]>>]

Output(program) == {Plan(program)[i].file : i \in DOMAIN Plan(program)}
Names == UNION {Output(program) : program \in Programs}
Prepared == ToSet(Removable)

VARIABLES
  directory,    \* file -> NoFile or [by, whole, hashes]
  command       \* run -> its program, place, remaining steps and hashes taken

datasetVars == <<directory, command>>

NotStarted == [program |-> "none", pc |-> "idle", remove |-> <<>>, plan |-> <<>>, hashes |-> <<>>]

DatasetsInit ==
  /\ directory = [f \in Names |-> NoFile]
  /\ command = [r \in Runs |-> NotStarted]

Active(r) == command[r].pc \in {"removing", "writing"}

Present(f) == directory[f] # NoFile
Put(f, content) == directory' = [directory EXCEPT ![f] = content]
Advance(r) == command' = [command EXCEPT ![r].plan = Tail(@)]

(* Preparing over an existing output is refused without --force. *)
Begin(r) ==
  /\ command[r].pc = "idle"
  /\ \A q \in Runs : ~Active(q)
  /\ \E program \in Programs, force \in BOOLEAN :
       LET prepares == program = "prepare"
           existing == prepares /\ \E f \in Prepared : Present(f)
       IN command' = [command EXCEPT ![r] =
            [program |-> program,
             pc |-> IF existing THEN IF force THEN "removing" ELSE "refused" ELSE "writing",
             remove |-> IF existing THEN Removable ELSE <<>>,
             plan |-> Plan(program), hashes |-> [f \in {} |-> NoFile]]]
  /\ UNCHANGED directory

Unlink(r) ==
  /\ command[r].pc = "removing"
  /\ IF command[r].remove = <<>>
     THEN command' = [command EXCEPT ![r].pc = "writing"] /\ UNCHANGED directory
     ELSE /\ Put(Head(command[r].remove), NoFile)
          /\ command' = [command EXCEPT ![r].remove = Tail(@)]

Step(r, op) ==
  /\ command[r].pc = "writing" /\ command[r].plan # <<>>
  /\ Head(command[r].plan).op = op

File(r) == Head(command[r].plan).file

(* dump_jsonl truncates the file, then writes the records one by one: until *)
(* the last one the file is a readable dataset that lacks some of them.     *)
TruncateFile(r) ==
  /\ Step(r, "dump")
  /\ directory[File(r)] # [by |-> r, whole |-> FALSE, hashes |-> NoFile]
  /\ Put(File(r), [by |-> r, whole |-> FALSE, hashes |-> NoFile])
  /\ UNCHANGED command

Complete(r) ==
  /\ Step(r, "dump")
  /\ directory[File(r)] = [by |-> r, whole |-> FALSE, hashes |-> NoFile]
  /\ Put(File(r), [by |-> r, whole |-> TRUE, hashes |-> NoFile])
  /\ Advance(r)

Digest(r) ==
  /\ Step(r, "hash")
  /\ command' = [command EXCEPT
       ![r].hashes = [f \in DOMAIN @ \cup {File(r)} |-> IF f = File(r) THEN directory[f] ELSE @[f]],
       ![r].plan = Tail(@)]
  /\ UNCHANGED directory

(* A manifest that is not replaced atomically is torn first. *)
WriteManifest(r) ==
  LET manifest == [by |-> r, whole |-> TRUE, hashes |-> command[r].hashes]
      torn     == [by |-> r, whole |-> FALSE, hashes |-> NoFile]
  IN \/ /\ Step(r, "jot") /\ directory[File(r)] # torn
        /\ Put(File(r), torn) /\ UNCHANGED command
     \/ /\ Step(r, "jot") /\ directory[File(r)] = torn
        /\ Put(File(r), manifest) /\ Advance(r)
     \/ /\ Step(r, "seal")
        /\ Put(File(r), manifest) /\ Advance(r)

(* Too few groups for a split that was asked for: after the source is out. *)
TooSmall(r) ==
  /\ command[r].program = "prepare" /\ command[r].pc = "writing"
  /\ command[r].plan = Tail(PreparePlan)
  /\ command' = [command EXCEPT ![r].pc = "raised"]
  /\ UNCHANGED directory

End(r) ==
  /\ command[r].pc = "writing" /\ command[r].plan = <<>>
  /\ command' = [command EXCEPT ![r].pc = "done"]
  /\ UNCHANGED directory

Interrupt(r) ==
  /\ Active(r)
  /\ command' = [command EXCEPT ![r].pc = "killed"]
  /\ UNCHANGED directory

DatasetsNext ==
  \E r \in Runs :
    \/ Begin(r) \/ Unlink(r) \/ TruncateFile(r) \/ Complete(r) \/ Digest(r)
    \/ WriteManifest(r) \/ TooSmall(r) \/ End(r) \/ Interrupt(r)

DatasetsSpec == DatasetsInit /\ [][DatasetsNext]_datasetVars
---------------------------------------------------------------------------
DatasetsTypeOK ==
  /\ DOMAIN directory = Names
  /\ \A f \in Names : directory[f] = NoFile \/ (directory[f].by \in Runs /\ directory[f].whole \in BOOLEAN)
  /\ \A r \in Runs : command[r].pc \in {"idle", "refused", "removing", "writing", "raised", "done", "killed"}

(* A prepare manifest never describes other data than what lies beside it: *)
(* while it exists, each of its files is the whole file it hashed, or is   *)
(* gone, whatever run was refused, forced, killed or too small.            *)
PrepareManifestIsTrue ==
  LET manifest == directory[<<"prepare", "manifest">>]
  IN manifest # NoFile =>
       \A f \in DOMAIN manifest.hashes : directory[f] \in {NoFile, manifest.hashes[f]}
=============================================================================
