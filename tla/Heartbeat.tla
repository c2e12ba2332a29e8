------------------------------ MODULE Heartbeat ------------------------------
(***************************************************************************)
(* The advisory surface over a heartbeat snapshot.  A projector writes the *)
(* snapshot file; environments (one per session) load it, let an agent     *)
(* look and recommend; a recommendation is compiled into a receipt for the *)
(* consumer.  The file is replaced, and expires, between any two of these. *)
(*                                                                         *)
(* A snapshot stands for its hash, a note reference and a fleet handle for *)
(* themselves; modes, texts and provenance are left out.                   *)
(***************************************************************************)
EXTENDS Integers, Sequences, FiniteSets, SequencesExt

CONSTANTS
  None,
  Torn,              \* what a file holds whose write has not ended
  Sessions,          \* environments, each with one recommendation artifact
  Operator,          \* the session whose recommendation the compile command reads
  Fleets,            \* the fleet summaries the projector may be given
  NoteLists,         \* the note references it may be given
  Offsets,           \* how far --observed-at may be off the clock
  MaxNow,            \* bound on the clock
  MaxPublished,      \* bound on the snapshots written
  MaxSnapshotTtl,    \* MAX_SNAPSHOT_TTL_SECONDS
  Lifetimes,         \* the --ttl-seconds the projector is given
  MaxTtl,            \* MAX_TTL_SECONDS
  Skew,              \* MAX_CLOCK_SKEW = MAX_SOURCE_CLOCK_SKEW
  Qualifications     \* benchmark-preferred handles an advisory may bring, or None

ASSUME HeartbeatAssumption ==
  /\ MaxNow \in Nat /\ MaxPublished \in Nat /\ Skew \in Nat /\ Offsets \subseteq Nat
  /\ MaxSnapshotTtl \in Nat \ {0} /\ MaxTtl \in Nat \ {0}
  /\ Operator \in Sessions

VARIABLES
  now,          \* the clock of the host
  file,         \* the snapshot file
  published,    \* the number of snapshots written
  env,          \* session -> the environment serving it
  terminal,     \* session -> its recommendation artifact
  compiling,    \* the snapshot the compile command has read
  receipt       \* the stored response last written

heartbeatVars == <<now, file, published, env, terminal, compiling, receipt>>

ValidFleet(fleet) ==
  /\ fleet.count = Len(fleet.handles)
  /\ Cardinality(ToSet(fleet.handles)) = Len(fleet.handles)
  /\ None \notin ToSet(fleet.handles)

Snapshots ==
  [handles : {fleet.handles : fleet \in {f \in Fleets : ValidFleet(f)}}, notes : NoteLists,
   observed : Nat, expires : Nat]

HandleNames == (UNION {ToSet(f.handles) : f \in Fleets}) \cup {None}
NoteNames   == (UNION {ToSet(n) : n \in NoteLists}) \cup {None}

Recommendations == [snapshot : Snapshots, handle : HandleNames, note : NoteNames]

Down == [alive |-> FALSE, snapshot |-> None, recommendation |-> None]

HeartbeatInit ==
  /\ now = 0
  /\ file = Torn /\ published = 0
  /\ env = [s \in Sessions |-> Down]
  /\ terminal = [s \in Sessions |-> None]
  /\ compiling = None
  /\ receipt = None

Tick == now < MaxNow /\ now' = now + 1 /\ UNCHANGED <<file, published, env, terminal, compiling, receipt>>
---------------------------------------------------------------------------
(* The projector: a plain write truncates the file before the text is there. *)
Truncate ==
  /\ published < MaxPublished
  /\ file' = Torn
  /\ UNCHANGED <<now, published, env, terminal, compiling, receipt>>

Publish ==
  /\ file = Torn /\ published < MaxPublished
  /\ published' = published + 1
  /\ \E fleet \in Fleets, notes \in NoteLists, offset \in Offsets, ttl \in Lifetimes :
       /\ ValidFleet(fleet)
       /\ ttl \in 1 .. MaxSnapshotTtl
       /\ file' = [handles |-> fleet.handles, notes |-> notes,
                   observed |-> now + offset, expires |-> now + offset + ttl]
  /\ UNCHANGED <<now, env, terminal, compiling, receipt>>

Fresh(s) == s.observed <= now + Skew /\ now < s.expires

(* mutant: a file that does not parse is served *)
LoadsTorn == file # Torn => Fresh(file)

Loads == file # Torn /\ Fresh(file)

Serve(s) ==
  /\ ~env[s].alive
  /\ Loads
  /\ env' = [env EXCEPT ![s] = [alive |-> TRUE, snapshot |-> file, recommendation |-> None]]
  /\ UNCHANGED <<now, file, published, terminal, compiling, receipt>>

(* The recommendation is dropped before the load, which may raise. *)
Reset(s) ==
  /\ env[s].alive
  /\ env' = [env EXCEPT ![s].recommendation = None,
                        ![s].snapshot = IF Loads THEN file ELSE @]
  /\ UNCHANGED <<now, file, published, terminal, compiling, receipt>>

Observe(s) ==
  /\ env[s].alive
  /\ Loads
  /\ env' = [env EXCEPT ![s].snapshot = file]
  /\ UNCHANGED <<now, file, published, terminal, compiling, receipt>>

Admits(snapshot, handle, note) ==
  /\ handle \in ToSet(snapshot.handles) \cup {None}
  /\ note \in ToSet(snapshot.notes) \cup {None}

Recommend(s, handle, note) ==
  /\ env[s].alive
  /\ Fresh(env[s].snapshot)
  /\ Admits(env[s].snapshot, handle, note)
  /\ env' = [env EXCEPT ![s].recommendation = [handle |-> handle, note |-> note]]
  /\ terminal' = [terminal EXCEPT ![s] =
       [snapshot |-> env[s].snapshot, handle |-> handle, note |-> note]]
  /\ UNCHANGED <<now, file, published, compiling, receipt>>

Stop(s) ==
  /\ env[s].alive
  /\ env' = [env EXCEPT ![s] = Down]
  /\ UNCHANGED <<now, file, published, terminal, compiling, receipt>>
---------------------------------------------------------------------------
(* mutant: the receipt outlives its snapshot *)
CappedAlone(at, ttl, snapshot) == at + ttl

Capped(at, ttl, snapshot) ==
  IF at + ttl < snapshot.expires THEN at + ttl ELSE snapshot.expires

(* A qualification may only narrow what the snapshot allows. *)
Narrows(preferred, snapshot, handle) ==
  preferred # None =>
    /\ ToSet(preferred) \subseteq ToSet(snapshot.handles)
    /\ handle # None => handle \in ToSet(preferred)

Compilable(snapshot, rec, at, preferred) ==
  /\ rec.snapshot = snapshot
  /\ Admits(snapshot, rec.handle, rec.note)
  /\ Narrows(preferred, snapshot, rec.handle)
  /\ snapshot.observed <= at + Skew
  /\ at < snapshot.expires

Receipt(snapshot, rec, at, ttl) ==
  [snapshot |-> snapshot, handle |-> rec.handle, note |-> rec.note,
   observed |-> at, expires |-> Capped(at, ttl, snapshot)]

(* The compile command reads the snapshot file and the artifact on its own *)
(* and may be told at which time to compile.                               *)
ReadSnapshot ==
  /\ compiling = None
  /\ file # Torn
  /\ compiling' = file
  /\ UNCHANGED <<now, file, published, env, terminal, receipt>>

Compile ==
  /\ compiling # None /\ terminal[Operator] # None
  /\ compiling' = None
  /\ \E at \in 0 .. MaxNow, ttl \in 1 .. MaxTtl, preferred \in Qualifications :
       receipt' = IF Compilable(compiling, terminal[Operator], at, preferred)
                  THEN Receipt(compiling, terminal[Operator], at, ttl)
                  ELSE receipt
  /\ UNCHANGED <<now, file, published, env, terminal>>

World == Tick \/ Truncate \/ Publish

OperatorNext ==
  \/ Serve(Operator) \/ Reset(Operator) \/ Observe(Operator) \/ Stop(Operator)
  \/ \E handle \in HandleNames, note \in NoteNames : Recommend(Operator, handle, note)
  \/ ReadSnapshot \/ Compile
---------------------------------------------------------------------------
HeartbeatTypeOK ==
  /\ now \in 0 .. MaxNow /\ published \in 0 .. MaxPublished
  /\ file \in Snapshots \cup {Torn}
  /\ env \in [Sessions -> [alive : BOOLEAN, snapshot : Snapshots \cup {None},
                           recommendation : [handle : HandleNames, note : NoteNames] \cup {None}]]
  /\ terminal \in [Sessions -> Recommendations \cup {None}]
  /\ compiling \in Snapshots \cup {None}
  /\ receipt # None => receipt.snapshot \in Snapshots

WithinSnapshot(r) ==
  /\ Admits(r.snapshot, r.handle, r.note)
  /\ r.observed < r.expires
  /\ r.expires <= r.snapshot.expires
  /\ r.expires - r.observed <= MaxTtl
=============================================================================
