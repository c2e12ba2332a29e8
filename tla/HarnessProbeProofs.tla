------------------------- MODULE HarnessProbeProofs -------------------------
(***************************************************************************)
(* Proofs about the evidence of the probe, for any number of probes,       *)
(* snapshots, handles and notes, any lifetimes and any clock.              *)
(***************************************************************************)
EXTENDS HarnessProbe, TLAPS

(* The order of the steps of a probe, and the step that writes a file.     *)
Position == [retain |-> 1, launch |-> 2, drive |-> 3, trace |-> 4, verify |-> 5, compile |-> 6,
             sign |-> 7, stable |-> 8, manifest |-> 9, endorse |-> 10, report |-> 11]

Stage == [snapshot |-> 1, recommendation |-> 3, trace |-> 4, response |-> 6, signature |-> 7,
          manifest |-> 9, manifest_signature |-> 10, report |-> 11]

Shape ==
  /\ DOMAIN probe = Probes /\ DOMAIN evidence = Evidence
  /\ \A r \in Probes : DOMAIN probe[r] = DOMAIN Idle

ProbeShape ==
  /\ Shape
  /\ \A r \in Probes : Running(r) => probe[r].pc \in DOMAIN Position

(* Only one probe is at work, and it has not written what is still to come. *)
NothingAhead ==
  \A r \in Probes : Running(r) =>
    /\ \A q \in Probes \ {r} : ~Running(q)
    /\ \A f \in Evidence : Stage[f] >= Position[probe[r].pc] => evidence[f] = None

EvidenceInv == ProbeShape /\ NothingAhead

(* No file that exists changes. *)
Kept == \A f \in Evidence : evidence[f] # None => evidence'[f] = evidence[f]

(* Probe r goes on to pc, and nobody else moves. *)
Moves(r, pc) ==
  /\ DOMAIN probe' = Probes /\ DOMAIN probe'[r] = DOMAIN Idle
  /\ \A q \in Probes \ {r} : probe'[q] = probe[q]
  /\ probe'[r].pc = pc

(* Nothing is written, or the file of the step the probe is at. *)
WritesItsFile(r) ==
  /\ DOMAIN evidence' = Evidence
  /\ \A f \in Evidence : Stage[f] # Position[probe[r].pc] => evidence'[f] = evidence[f]

Over(pc) == pc \in {"idle", "failed", "done"}

LEMMA PositionsAreNumbers ==
  /\ \A pc \in DOMAIN Position : Position[pc] \in Nat /\ ~Over(pc)
  /\ \A f \in Evidence : Stage[f] \in Nat
BY DEF Position, Stage, Evidence, Over

(* A step forward, with the file of the step it leaves written or not,     *)
(* keeps the invariant and the evidence.                                   *)
LEMMA Forward ==
  ASSUME EvidenceInv, NEW r \in Probes, Running(r), NEW pc, Moves(r, pc), WritesItsFile(r),
         Over(pc) \/ (pc \in DOMAIN Position /\ Position[pc] > Position[probe[r].pc])
  PROVE  EvidenceInv' /\ Kept
<1>1. /\ probe[r].pc \in DOMAIN Position
      /\ \A q \in Probes \ {r} : ~Running(q)
      /\ \A f \in Evidence : Stage[f] >= Position[probe[r].pc] => evidence[f] = None
  BY DEF EvidenceInv, ProbeShape, Shape, NothingAhead
<1>2. \A q \in Probes \ {r} : ~Running(q)' /\ DOMAIN probe'[q] = DOMAIN Idle
  BY <1>1 DEF Moves, Running, EvidenceInv, ProbeShape, Shape
<1>3. Running(r)' => pc \in DOMAIN Position /\ Position[pc] > Position[probe[r].pc]
  BY DEF Moves, Running, Over
<1>4. ProbeShape'
  BY <1>2, <1>3 DEF ProbeShape, Shape, Moves, WritesItsFile
<1>5. NothingAhead'
  <2> SUFFICES ASSUME Running(r)', NEW f \in Evidence, Stage[f] >= Position[pc]
               PROVE  evidence'[f] = None
    BY <1>2, <1>3 DEF NothingAhead, Moves
  <2>1. Stage[f] > Position[probe[r].pc]
    BY <1>1, <1>3, PositionsAreNumbers
  <2> QED
    BY <2>1, <1>1, PositionsAreNumbers DEF WritesItsFile
<1>6. Kept
  BY <1>1, PositionsAreNumbers DEF Kept, WritesItsFile
<1> QED
  BY <1>4, <1>5, <1>6 DEF EvidenceInv

(* What the helpers of the actions do to probe and evidence. *)
LEMMA GotoMoves ==
  ASSUME Shape, NEW r \in Probes, NEW pc, Goto(r, pc)
  PROVE  Moves(r, pc)
BY DEF Goto, Moves, Shape, Idle

LEMMA KeepWrites ==
  ASSUME Shape, NEW r \in Probes, NEW f \in Evidence, NEW content, Keep(r, f, content),
         Stage[f] = Position[probe[r].pc]
  PROVE  WritesItsFile(r)
BY DEF Keep, WritesItsFile, Shape

LEMMA UnwrittenKeeps ==
  ASSUME Shape, NEW r \in Probes, UNCHANGED evidence
  PROVE  WritesItsFile(r)
BY DEF WritesItsFile, Shape

(* Every step of a probe that is under way is a step forward. *)
LEMMA ProbeSteps ==
  ASSUME EvidenceInv, NEW r \in Probes,
         \/ Retain(r) \/ Launch(r) \/ DriverRecommends(r) \/ DriverTraces(r) \/ Verify(r)
         \/ CompileResponse(r) \/ Sign(r) \/ Stable(r) \/ Manifest(r) \/ Endorse(r) \/ Report(r)
         \/ Die(r)
  PROVE  EvidenceInv' /\ Kept
<1> DEFINE here == probe[r].pc
           Next(pc) == Over(pc) \/ (pc \in DOMAIN Position /\ Position[pc] > Position[here])
<1>1. Shape
  BY DEF EvidenceInv, ProbeShape
<1>2. CASE Retain(r)
  <2>1. here = "retain" /\ Goto(r, "launch") /\ Keep(r, "snapshot", probe[r].source)
    BY <1>2 DEF Retain, At
  <2>2. Running(r) /\ Next("launch") /\ "snapshot" \in Evidence /\ Stage["snapshot"] = Position[here]
    BY <2>1 DEF Running, Position, Stage, Evidence
  <2> HIDE DEF here
  <2>3. Moves(r, "launch") /\ WritesItsFile(r)
    BY <1>1, <2>1, <2>2, GotoMoves, KeepWrites DEF here
  <2> QED
    BY <2>2, <2>3, Forward DEF here
<1>3. CASE Launch(r)
  <2>1. here = "launch" /\ Goto(r, "drive") /\ UNCHANGED evidence
    BY <1>3 DEF Launch, At
  <2>2. Running(r) /\ Next("drive")
    BY <2>1 DEF Running, Position
  <2>3. Moves(r, "drive") /\ WritesItsFile(r)
    BY <1>1, <2>1, GotoMoves, UnwrittenKeeps
  <2> QED
    BY <2>2, <2>3, Forward
<1>4. CASE DriverRecommends(r)
  <2>1. here = "drive" /\ Goto(r, "trace") /\ Keep(r, "recommendation", terminal'[r])
    BY <1>4 DEF DriverRecommends, At
  <2>2. Running(r) /\ Next("trace") /\ "recommendation" \in Evidence
        /\ Stage["recommendation"] = Position[here]
    BY <2>1 DEF Running, Position, Stage, Evidence
  <2>3. Moves(r, "trace") /\ WritesItsFile(r)
    BY <1>1, <2>1, <2>2, GotoMoves, KeepWrites
  <2> QED
    BY <2>2, <2>3, Forward
<1>5. CASE DriverTraces(r)
  <2>1. here = "trace" /\ Goto(r, "verify") /\ Keep(r, "trace", r)
    BY <1>5 DEF DriverTraces, At
  <2>2. Running(r) /\ Next("verify") /\ "trace" \in Evidence /\ Stage["trace"] = Position[here]
    BY <2>1 DEF Running, Position, Stage, Evidence
  <2>3. Moves(r, "verify") /\ WritesItsFile(r)
    BY <1>1, <2>1, <2>2, GotoMoves, KeepWrites
  <2> QED
    BY <2>2, <2>3, Forward
<1>6. CASE Verify(r)
  <2>1. here = "verify" /\ UNCHANGED evidence
    BY <1>6 DEF Verify, At
  <2>2. Running(r) /\ Next("compile") /\ Next("failed")
    BY <2>1 DEF Running, Position, Over
  <2>3. Moves(r, "compile") \/ Moves(r, "failed")
    BY <1>6, <1>1 DEF Verify, Moves, Shape, Idle
  <2>4. WritesItsFile(r)
    BY <1>1, <2>1, UnwrittenKeeps
  <2> QED
    BY <2>2, <2>3, <2>4, Forward
<1>7. CASE CompileResponse(r)
  <2>1. here = "compile"
    BY <1>7 DEF CompileResponse, At
  <2>2. /\ Running(r) /\ Next("sign") /\ Next("stable") /\ Next("failed")
        /\ "response" \in Evidence /\ Stage["response"] = Position[here]
    BY <2>1 DEF Running, Position, Stage, Evidence, Over
  <2>3. \E pc \in {"sign", "stable", "failed"} : Goto(r, pc)
    BY <1>7 DEF CompileResponse
  <2>4. UNCHANGED evidence \/ \E response : Keep(r, "response", response)
    BY <1>7 DEF CompileResponse
  <2>5. WritesItsFile(r)
    BY <1>1, <2>2, <2>4, KeepWrites, UnwrittenKeeps
  <2>6. \E pc \in {"sign", "stable", "failed"} : Moves(r, pc)
    BY <1>1, <2>3, GotoMoves
  <2> QED
    BY <2>2, <2>5, <2>6, Forward
<1>8. CASE Sign(r)
  <2>1. here = "sign" /\ Keep(r, "signature", evidence["response"].is)
    BY <1>8 DEF Sign, At
  <2>2. Running(r) /\ Next("stable") /\ "signature" \in Evidence /\ Stage["signature"] = Position[here]
    BY <2>1 DEF Running, Position, Stage, Evidence
  <2>3. Moves(r, "stable")
    BY <1>8, <1>1 DEF Sign, Moves, Shape, Idle
  <2>4. WritesItsFile(r)
    BY <1>1, <2>1, <2>2, KeepWrites
  <2> QED
    BY <2>2, <2>3, <2>4, Forward
<1>9. CASE Stable(r)
  <2>1. here = "stable" /\ UNCHANGED evidence
    BY <1>9 DEF Stable, At
  <2>2. Running(r) /\ Next("manifest") /\ Next("report") /\ Next("failed")
    BY <2>1 DEF Running, Position, Over
  <2>3. \E pc \in {"manifest", "report", "failed"} : Goto(r, pc)
    BY <1>9 DEF Stable
  <2>4. \E pc \in {"manifest", "report", "failed"} : Moves(r, pc)
    BY <1>1, <2>3, GotoMoves
  <2>5. WritesItsFile(r)
    BY <1>1, <2>1, UnwrittenKeeps
  <2> QED
    BY <2>2, <2>4, <2>5, Forward
<1>10. CASE Manifest(r)
  <2>1. here = "manifest"
    BY <1>10 DEF Manifest, At
  <2>2. /\ Running(r) /\ Next("endorse") /\ Next("failed")
        /\ "manifest" \in Evidence /\ Stage["manifest"] = Position[here]
    BY <2>1 DEF Running, Position, Stage, Evidence, Over
  <2>3. \/ Goto(r, "failed") /\ UNCHANGED evidence
        \/ Goto(r, "endorse") /\ Keep(r, "manifest", [f \in Bound |-> evidence[f].is])
    BY <1>10 DEF Manifest
  <2>4. WritesItsFile(r)
    BY <1>1, <2>2, <2>3, KeepWrites, UnwrittenKeeps
  <2>5. Moves(r, "failed") \/ Moves(r, "endorse")
    BY <1>1, <2>3, GotoMoves
  <2> QED
    BY <2>2, <2>4, <2>5, Forward
<1>11. CASE Endorse(r)
  <2>1. here = "endorse" /\ Goto(r, "report") /\ Keep(r, "manifest_signature", evidence["manifest"].is)
    BY <1>11 DEF Endorse, At
  <2>2. Running(r) /\ Next("report") /\ "manifest_signature" \in Evidence
        /\ Stage["manifest_signature"] = Position[here]
    BY <2>1 DEF Running, Position, Stage, Evidence
  <2>3. Moves(r, "report") /\ WritesItsFile(r)
    BY <1>1, <2>1, <2>2, GotoMoves, KeepWrites
  <2> QED
    BY <2>2, <2>3, Forward
<1>12. CASE Report(r)
  <2>1. here = "report" /\ Goto(r, "done")
        /\ Keep(r, "report", IF Assertions(r) THEN "pass" ELSE "fail")
    BY <1>12 DEF Report, At
  <2>2. Running(r) /\ Next("done") /\ "report" \in Evidence /\ Stage["report"] = Position[here]
    BY <2>1 DEF Running, Position, Stage, Evidence, Over
  <2>3. Moves(r, "done") /\ WritesItsFile(r)
    BY <1>1, <2>1, <2>2, GotoMoves, KeepWrites
  <2> QED
    BY <2>2, <2>3, Forward
<1>13. CASE Die(r)
  <2>1. Running(r) /\ Moves(r, "failed") /\ UNCHANGED evidence /\ Next("failed")
    BY <1>13, <1>1 DEF Die, Moves, Shape, Idle, Over
  <2> QED
    BY <1>1, <2>1, UnwrittenKeeps, Forward
<1> QED
  BY <1>2, <1>3, <1>4, <1>5, <1>6, <1>7, <1>8, <1>9, <1>10, <1>11, <1>12, <1>13

(* A probe starts alone, and in a directory without evidence. *)
LEMMA StartsClean ==
  ASSUME Exclusive, EvidenceInv, NEW r \in Probes, Inspect(r)
  PROVE  EvidenceInv' /\ Kept
<1>1. ProbeShape /\ probe[r].pc = "idle" /\ UNCHANGED evidence /\ \A q \in Probes : ~Running(q)
  BY DEF EvidenceInv, Inspect, At
<1>2. Moves(r, "failed") \/ (Moves(r, "retain") /\ NoEvidence)
  BY <1>1 DEF Inspect, Moves, ProbeShape, Shape, Idle
<1>3. \A q \in Probes \ {r} : ~Running(q)' /\ DOMAIN probe'[q] = DOMAIN Idle
  BY <1>1, <1>2 DEF Moves, Running, ProbeShape, Shape
<1>4. Running(r)' => probe'[r].pc = "retain" /\ NoEvidence
  BY <1>2 DEF Moves, Running
<1>5. ProbeShape'
  BY <1>1, <1>2, <1>3, <1>4 DEF ProbeShape, Shape, Moves, Position
<1>6. NothingAhead'
  BY <1>1, <1>3, <1>4 DEF NothingAhead, NoEvidence
<1> QED
  BY <1>1, <1>5, <1>6 DEF EvidenceInv, Kept

LEMMA EvidenceStep ==
  ASSUME Exclusive, EvidenceInv, [AdvisoryNext]_vars
  PROVE  EvidenceInv' /\ Kept
<1>1. CASE UNCHANGED <<probe, evidence>>
  BY <1>1 DEF EvidenceInv, ProbeShape, Shape, NothingAhead, Running, Kept
<1>2. CASE ProbeNext
  <2>1. CASE Commit
    BY <1>1, <2>1 DEF Commit
  <2>2. CASE \E r \in Probes : Inspect(r)
    BY <2>2, StartsClean
  <2>3. CASE \E r \in Probes : DriverLooks(r)
    BY <1>1, <2>3 DEF DriverLooks, probeVars
  <2> QED
    BY <1>2, <2>1, <2>2, <2>3, ProbeSteps DEF ProbeNext
<1>3. CASE UNCHANGED probeVars
  BY <1>1, <1>3 DEF probeVars
<1>4. CASE UNCHANGED vars
  BY <1>1, <1>4 DEF vars, probeVars
<1> QED
  BY <1>2, <1>3, <1>4 DEF AdvisoryNext

(* "refusing to overwrite existing probe evidence": where probes are not    *)
(* started side by side, no file of the evidence ever changes, however many *)
(* probes are run in one directory, fail or are killed.                     *)
THEOREM EvidenceIsForEver ==
  ASSUME Exclusive
  PROVE  AdvisorySpec => EvidenceNeverOverwritten
<1>1. HeartbeatInit /\ ProbeInit => EvidenceInv
  BY DEF ProbeInit, Idle, EvidenceInv, ProbeShape, Shape, NothingAhead, Running
<1>2. EvidenceInv /\ [AdvisoryNext]_vars => EvidenceInv'
  BY EvidenceStep
<1>3. EvidenceInv /\ [AdvisoryNext]_vars
        => [\A f \in Evidence : evidence[f] # None => evidence'[f] = evidence[f]]_vars
  BY EvidenceStep DEF Kept
<1> QED
  BY <1>1, <1>2, <1>3, PTL DEF AdvisorySpec, EvidenceNeverOverwritten
---------------------------------------------------------------------------
(* Whatever a receipt is made of was read whole from the snapshot file.    *)
SnapshotsRead ==
  /\ now \in Nat
  /\ file # Torn => file \in Snapshots
  /\ compiling # None => compiling \in Snapshots
  /\ \A r \in Probes : Running(r) => probe[r].source \in Snapshots

ReceiptInv == Shape /\ SnapshotsRead /\ ReceiptWithinSnapshot

(* No process starts, and none changes its mind about what it read. *)
SourcesKept ==
  /\ Shape'
  /\ \A r \in Probes : Running(r)' => Running(r) /\ probe'[r].source = probe[r].source

(* A receipt that compiles is within its snapshot. *)
LEMMA CompiledWithin ==
  ASSUME NEW snapshot \in Snapshots, NEW rec, NEW at \in Nat, NEW ttl \in 1 .. MaxTtl, NEW preferred,
         Compilable(snapshot, rec, at, preferred)
  PROVE  WithinSnapshot(Receipt(snapshot, rec, at, ttl))
<1> DEFINE r == Receipt(snapshot, rec, at, ttl)
<1>1. /\ r.snapshot = snapshot /\ r.handle = rec.handle /\ r.note = rec.note
      /\ r.observed = at /\ r.expires = Capped(at, ttl, snapshot)
  BY DEF Receipt
<1>2. Admits(snapshot, rec.handle, rec.note) /\ at < snapshot.expires
  BY DEF Compilable
<1>3. snapshot.expires \in Nat /\ MaxTtl \in Nat
  BY HeartbeatAssumption DEF Snapshots
<1>4. /\ at < Capped(at, ttl, snapshot) /\ Capped(at, ttl, snapshot) <= snapshot.expires
      /\ Capped(at, ttl, snapshot) - at <= MaxTtl
  BY <1>2, <1>3 DEF Capped
<1> QED
  BY <1>1, <1>2, <1>4 DEF WithinSnapshot

(* A step that reads no snapshot and compiles nothing changes nothing here. *)
LEMMA NothingCompiled ==
  ASSUME ReceiptInv, SourcesKept, UNCHANGED <<now, file, compiling, receipt>>,
         evidence'["response"] = evidence["response"]
  PROVE  ReceiptInv'
BY DEF ReceiptInv, SnapshotsRead, SourcesKept, ReceiptWithinSnapshot, WithinSnapshot, Admits

LEMMA GotoKeepsSources ==
  ASSUME Shape, NEW r \in Probes, Running(r), NEW pc, Goto(r, pc), DOMAIN evidence' = Evidence
  PROVE  SourcesKept
BY DEF Goto, SourcesKept, Shape, Running, Idle

LEMMA KeepAnother ==
  ASSUME Shape, NEW r \in Probes, NEW f \in Evidence \ {"response"}, NEW content, Keep(r, f, content)
  PROVE  DOMAIN evidence' = Evidence /\ evidence'["response"] = evidence["response"]
BY DEF Keep, Shape

(* The steps of a probe. *)
LEMMA ProbeReceipts ==
  ASSUME ReceiptInv, NEW r \in Probes,
         \/ Inspect(r) \/ Retain(r) \/ Launch(r) \/ DriverLooks(r) \/ DriverRecommends(r)
         \/ DriverTraces(r) \/ Verify(r) \/ CompileResponse(r) \/ Sign(r) \/ Stable(r)
         \/ Manifest(r) \/ Endorse(r) \/ Report(r) \/ Die(r)
  PROVE  ReceiptInv'
<1> DEFINE Same == UNCHANGED <<now, file, compiling, receipt>>
<1>1. Shape
  BY DEF ReceiptInv
<1>2. CASE Inspect(r)
  <2>1. Same /\ UNCHANGED evidence /\ Shape'
    BY <1>1, <1>2 DEF Inspect, heartbeatVars, Shape, Idle
  <2>2. \A q \in Probes : Running(q)' =>
          probe'[q].source \in Snapshots \/ (Running(q) /\ probe'[q] = probe[q])
    <3> SUFFICES ASSUME NEW q \in Probes, Running(q)'
                 PROVE  probe'[q].source \in Snapshots \/ (Running(q) /\ probe'[q] = probe[q])
      OBVIOUS
    <3>1. CASE q = r
      BY <3>1, <1>1, <1>2 DEF Inspect, Shape, Idle, Running, ReceiptInv, SnapshotsRead
    <3>2. CASE q # r
      BY <3>2, <1>1, <1>2 DEF Inspect, Shape, Running
    <3> QED
      BY <3>1, <3>2
  <2> QED
    BY <2>1, <2>2 DEF ReceiptInv, SnapshotsRead, ReceiptWithinSnapshot, WithinSnapshot, Admits
<1>3. CASE Retain(r)
  <2>1. Running(r) /\ Goto(r, "launch") /\ Keep(r, "snapshot", probe[r].source) /\ Same
    BY <1>3 DEF Retain, At, Running, heartbeatVars
  <2>2. DOMAIN evidence' = Evidence /\ evidence'["response"] = evidence["response"]
    BY <1>1, <2>1, KeepAnother DEF Evidence
  <2> QED
    BY <1>1, <2>1, <2>2, GotoKeepsSources, NothingCompiled
<1>4. CASE Launch(r)
  <2>1. Running(r) /\ Goto(r, "drive") /\ UNCHANGED evidence /\ Same
    BY <1>4 DEF Launch, At, Running, Serve
  <2> QED
    BY <1>1, <2>1, GotoKeepsSources, NothingCompiled DEF Shape
<1>5. CASE DriverLooks(r)
  <2>1. UNCHANGED <<probe, evidence>> /\ Same
    BY <1>5 DEF DriverLooks, Observe, Reset, probeVars
  <2>2. SourcesKept
    BY <1>1, <2>1 DEF SourcesKept, Shape, Running
  <2> QED
    BY <2>1, <2>2, NothingCompiled
<1>6. CASE DriverRecommends(r)
  <2>1. Running(r) /\ Goto(r, "trace") /\ Keep(r, "recommendation", terminal'[r]) /\ Same
    BY <1>6 DEF DriverRecommends, At, Running, Recommend
  <2>2. DOMAIN evidence' = Evidence /\ evidence'["response"] = evidence["response"]
    BY <1>1, <2>1, KeepAnother DEF Evidence
  <2> QED
    BY <1>1, <2>1, <2>2, GotoKeepsSources, NothingCompiled
<1>7. CASE DriverTraces(r)
  <2>1. Running(r) /\ Goto(r, "verify") /\ Keep(r, "trace", r) /\ Same
    BY <1>7 DEF DriverTraces, At, Running, Stop
  <2>2. DOMAIN evidence' = Evidence /\ evidence'["response"] = evidence["response"]
    BY <1>1, <2>1, KeepAnother DEF Evidence
  <2> QED
    BY <1>1, <2>1, <2>2, GotoKeepsSources, NothingCompiled
<1>8. CASE Verify(r)
  <2>1. Running(r) /\ UNCHANGED evidence /\ Same
    BY <1>8 DEF Verify, At, Running, heartbeatVars
  <2>2. SourcesKept
    BY <1>1, <1>8, <2>1 DEF Verify, SourcesKept, Shape, Running, Idle
  <2> QED
    BY <2>1, <2>2, NothingCompiled
<1>9. CASE CompileResponse(r)
  <2>1. Running(r) /\ Same
    BY <1>9 DEF CompileResponse, At, Running, heartbeatVars
  <2>2. probe[r].source \in Snapshots /\ now \in Nat
    BY <2>1 DEF ReceiptInv, SnapshotsRead
  <2>3. PICK ttl \in 1 .. MaxTtl, preferred \in Qualifications :
          IF Compilable(probe[r].source, probe[r].recommendation, now, preferred)
          THEN /\ Keep(r, "response", Receipt(probe[r].source, probe[r].recommendation, now, ttl))
               /\ Goto(r, IF probe[r].signs THEN "sign" ELSE "stable")
          ELSE Goto(r, "failed") /\ UNCHANGED evidence
    BY <1>9 DEF CompileResponse
  <2>4. CASE Compilable(probe[r].source, probe[r].recommendation, now, preferred)
    <3> DEFINE response == Receipt(probe[r].source, probe[r].recommendation, now, ttl)
    <3>1. WithinSnapshot(response)
      BY <2>2, <2>4, CompiledWithin
    <3> HIDE DEF response
    <3>2. DOMAIN evidence' = Evidence /\ evidence'["response"] = [by |-> r, is |-> response]
      BY <1>1, <2>3, <2>4 DEF Keep, Shape, Evidence, response
    <3>3. SourcesKept
      BY <1>1, <2>1, <2>3, <2>4, <3>2, GotoKeepsSources
    <3>4. SnapshotsRead'
      BY <2>1, <3>3 DEF ReceiptInv, SnapshotsRead, SourcesKept
    <3>5. ReceiptWithinSnapshot'
      <4>1. receipt' # None => WithinSnapshot(receipt')
        BY <2>1 DEF ReceiptInv, ReceiptWithinSnapshot
      <4>2. evidence'["response"].is = response
        BY <3>2
      <4> QED
        BY <3>1, <4>1, <4>2 DEF ReceiptWithinSnapshot, WithinSnapshot, Admits
    <3> QED
      BY <3>3, <3>4, <3>5 DEF ReceiptInv, SourcesKept
  <2>5. CASE ~Compilable(probe[r].source, probe[r].recommendation, now, preferred)
    <3>1. Goto(r, "failed") /\ UNCHANGED evidence
      BY <2>3, <2>5
    <3> QED
      BY <1>1, <2>1, <3>1, GotoKeepsSources, NothingCompiled DEF Shape
  <2> QED
    BY <2>4, <2>5
<1>10. CASE Sign(r)
  <2>1. Running(r) /\ Keep(r, "signature", evidence["response"].is) /\ Same
    BY <1>10 DEF Sign, At, Running, heartbeatVars
  <2>2. DOMAIN evidence' = Evidence /\ evidence'["response"] = evidence["response"]
    BY <1>1, <2>1, KeepAnother DEF Evidence
  <2>3. SourcesKept
    BY <1>1, <1>10, <2>1, <2>2 DEF Sign, SourcesKept, Shape, Running, Idle
  <2> QED
    BY <2>1, <2>2, <2>3, NothingCompiled
<1>11. CASE Stable(r)
  <2>1. Running(r) /\ UNCHANGED evidence /\ Same /\ \E pc : Goto(r, pc)
    BY <1>11 DEF Stable, At, Running, heartbeatVars
  <2> QED
    BY <1>1, <2>1, GotoKeepsSources, NothingCompiled DEF Shape
<1>12. CASE Manifest(r)
  <2>1. Running(r) /\ Same /\ \E pc : Goto(r, pc)
    BY <1>12 DEF Manifest, At, Running, heartbeatVars
  <2>2. UNCHANGED evidence \/ Keep(r, "manifest", [f \in Bound |-> evidence[f].is])
    BY <1>12 DEF Manifest
  <2>3. DOMAIN evidence' = Evidence /\ evidence'["response"] = evidence["response"]
    BY <1>1, <2>2, KeepAnother DEF Evidence, Shape
  <2> QED
    BY <1>1, <2>1, <2>3, GotoKeepsSources, NothingCompiled
<1>13. CASE Endorse(r)
  <2>1. Running(r) /\ Goto(r, "report") /\ Keep(r, "manifest_signature", evidence["manifest"].is) /\ Same
    BY <1>13 DEF Endorse, At, Running, heartbeatVars
  <2>2. DOMAIN evidence' = Evidence /\ evidence'["response"] = evidence["response"]
    BY <1>1, <2>1, KeepAnother DEF Evidence
  <2> QED
    BY <1>1, <2>1, <2>2, GotoKeepsSources, NothingCompiled
<1>14. CASE Report(r)
  <2>1. /\ Running(r) /\ Goto(r, "done") /\ Same
        /\ Keep(r, "report", IF Assertions(r) THEN "pass" ELSE "fail")
    BY <1>14 DEF Report, At, Running, heartbeatVars
  <2>2. DOMAIN evidence' = Evidence /\ evidence'["response"] = evidence["response"]
    BY <1>1, <2>1, KeepAnother DEF Evidence
  <2> QED
    BY <1>1, <2>1, <2>2, GotoKeepsSources, NothingCompiled
<1>15. CASE Die(r)
  <2>1. UNCHANGED evidence /\ Same
    BY <1>15 DEF Die, Stop, heartbeatVars
  <2>2. SourcesKept
    BY <1>1, <1>15, <2>1 DEF Die, SourcesKept, Shape, Running, Idle
  <2> QED
    BY <2>1, <2>2, NothingCompiled
<1> QED
  BY <1>2, <1>3, <1>4, <1>5, <1>6, <1>7, <1>8, <1>9, <1>10, <1>11, <1>12, <1>13, <1>14, <1>15

(* The steps of the projector, of the operator's environment and of the    *)
(* compile command.                                                        *)
LEMMA OperatorReceipts ==
  ASSUME ReceiptInv, World \/ OperatorNext, UNCHANGED probeVars
  PROVE  ReceiptInv'
<1>1. SourcesKept /\ evidence'["response"] = evidence["response"]
  BY DEF probeVars, SourcesKept, ReceiptInv, Shape, Running
<1>2. CASE Tick
  <2>1. now' \in Nat /\ UNCHANGED <<file, compiling, receipt>>
    BY <1>2 DEF Tick, ReceiptInv, SnapshotsRead
  <2> QED
    BY <1>1, <2>1 DEF ReceiptInv, SnapshotsRead, SourcesKept, ReceiptWithinSnapshot, WithinSnapshot, Admits
<1>3. CASE Truncate
  <2>1. file' = Torn /\ UNCHANGED <<now, compiling, receipt>>
    BY <1>3 DEF Truncate
  <2> QED
    BY <1>1, <2>1 DEF ReceiptInv, SnapshotsRead, SourcesKept, ReceiptWithinSnapshot, WithinSnapshot, Admits
<1>4. CASE Publish
  <2>1. PICK fleet \in Fleets, notes \in NoteLists, offset \in Offsets, ttl \in Lifetimes :
          /\ ValidFleet(fleet) /\ ttl \in 1 .. MaxSnapshotTtl
          /\ file' = [handles |-> fleet.handles, notes |-> notes,
                      observed |-> now + offset, expires |-> now + offset + ttl]
    BY <1>4 DEF Publish
  <2>2. now \in Nat /\ offset \in Nat /\ ttl \in Nat
    BY <2>1, HeartbeatAssumption DEF ReceiptInv, SnapshotsRead
  <2>3. now + offset \in Nat /\ now + offset + ttl \in Nat
    BY <2>2
  <2>4. file' \in Snapshots
    BY <2>1, <2>3 DEF Snapshots
  <2>5. UNCHANGED <<now, compiling, receipt>>
    BY <1>4 DEF Publish
  <2> QED
    BY <1>1, <2>4, <2>5 DEF ReceiptInv, SnapshotsRead, SourcesKept, ReceiptWithinSnapshot, WithinSnapshot, Admits
<1>5. CASE ReadSnapshot
  <2>1. compiling' \in Snapshots /\ UNCHANGED <<now, file, receipt>>
    BY <1>5 DEF ReadSnapshot, ReceiptInv, SnapshotsRead
  <2> QED
    BY <1>1, <2>1 DEF ReceiptInv, SnapshotsRead, SourcesKept, ReceiptWithinSnapshot, WithinSnapshot, Admits
<1>6. CASE Compile
  <2>1. PICK at \in 0 .. MaxNow, ttl \in 1 .. MaxTtl, preferred \in Qualifications :
          receipt' = IF Compilable(compiling, terminal[Operator], at, preferred)
                     THEN Receipt(compiling, terminal[Operator], at, ttl) ELSE receipt
    BY <1>6 DEF Compile
  <2>2. compiling \in Snapshots /\ compiling' = None /\ UNCHANGED <<now, file>>
    BY <1>6 DEF Compile, ReceiptInv, SnapshotsRead
  <2>3. receipt' = receipt \/ WithinSnapshot(receipt')
    BY <2>1, <2>2, CompiledWithin, HeartbeatAssumption
  <2> QED
    BY <1>1, <2>2, <2>3 DEF ReceiptInv, SnapshotsRead, SourcesKept, ReceiptWithinSnapshot, WithinSnapshot, Admits
<1>7. CASE \/ Serve(Operator) \/ Reset(Operator) \/ Observe(Operator) \/ Stop(Operator)
           \/ \E handle \in HandleNames, note \in NoteNames : Recommend(Operator, handle, note)
  <2>1. UNCHANGED <<now, file, compiling, receipt>>
    BY <1>7 DEF Serve, Reset, Observe, Stop, Recommend
  <2> QED
    BY <1>1, <2>1, NothingCompiled
<1> QED
  BY <1>2, <1>3, <1>4, <1>5, <1>6, <1>7 DEF World, OperatorNext

LEMMA ReceiptStep == ReceiptInv /\ [AdvisoryNext]_vars => ReceiptInv'
<1> SUFFICES ASSUME ReceiptInv, [AdvisoryNext]_vars PROVE ReceiptInv'
  OBVIOUS
<1>1. CASE Commit
  <2>1. UNCHANGED <<now, file, compiling, receipt, probe, evidence>>
    BY <1>1 DEF Commit, heartbeatVars
  <2> QED
    BY <2>1, NothingCompiled DEF SourcesKept, ReceiptInv, Shape, Running
<1>2. CASE ProbeNext /\ ~Commit
  BY <1>2, ProbeReceipts DEF ProbeNext
<1>3. CASE (World \/ OperatorNext) /\ UNCHANGED probeVars
  BY <1>3, OperatorReceipts
<1>4. CASE UNCHANGED vars
  <2>1. UNCHANGED <<now, file, compiling, receipt, probe, evidence>>
    BY <1>4 DEF vars, heartbeatVars, probeVars
  <2> QED
    BY <2>1, NothingCompiled DEF SourcesKept, ReceiptInv, Shape, Running
<1> QED
  BY <1>1, <1>2, <1>3, <1>4 DEF AdvisoryNext

(* Whatever is published, reset, served, killed or compiled late in         *)
(* between, a receipt of the compile command or of a probe names a handle   *)
(* and a note of one snapshot and does not outlive it.                      *)
THEOREM ReceiptsStayWithin == AdvisorySpec => []ReceiptWithinSnapshot
<1>1. HeartbeatInit /\ ProbeInit => ReceiptInv
  <2> SUFFICES ASSUME HeartbeatInit, ProbeInit PROVE ReceiptInv
    OBVIOUS
  <2>1. Shape /\ \A r \in Probes : ~Running(r)
    BY DEF ProbeInit, Idle, Shape, Running
  <2>2. receipt = None /\ evidence["response"] = None
    BY DEF HeartbeatInit, ProbeInit, Evidence
  <2> QED
    BY <2>1, <2>2 DEF HeartbeatInit, ReceiptInv, SnapshotsRead, ReceiptWithinSnapshot
<1>2. ReceiptInv => ReceiptWithinSnapshot
  BY DEF ReceiptInv
<1> QED
  BY <1>1, <1>2, ReceiptStep, PTL DEF AdvisorySpec
---------------------------------------------------------------------------
(* What the environments and the artifacts hold                            *)

(* An environment at work serves a snapshot that was whole.                *)
HeartbeatTyped ==
  /\ HeartbeatTypeOK
  /\ \A s \in Sessions : env[s].alive => env[s].snapshot \in Snapshots

Environments ==
  [alive : BOOLEAN, snapshot : Snapshots \cup {None},
   recommendation : [handle : HandleNames, note : NoteNames] \cup {None}]

(* What a snapshot admits is a handle of a fleet and a note of a list.     *)
LEMMA AdmittedNames ==
  ASSUME NEW snapshot \in Snapshots, NEW handle, NEW note, Admits(snapshot, handle, note)
  PROVE  handle \in HandleNames /\ note \in NoteNames
<1>1. PICK fleet \in Fleets : snapshot.handles = fleet.handles
  BY DEF Snapshots
<1>2. ToSet(fleet.handles) \subseteq HandleNames /\ ToSet(snapshot.notes) \subseteq NoteNames
  <2>1. snapshot.notes \in NoteLists
    BY DEF Snapshots
  <2>2. \A f \in Fleets : ToSet(f.handles) \subseteq UNION {ToSet(g.handles) : g \in Fleets}
    BY Zenon
  <2>3. \A n \in NoteLists : ToSet(n) \subseteq UNION {ToSet(m) : m \in NoteLists}
    BY Zenon
  <2> QED
    BY <2>1, <2>2, <2>3, Zenon DEF HandleNames, NoteNames
<1>3. handle \in HandleNames /\ note \in NoteNames
  <2>1. None \in HandleNames /\ None \in NoteNames
    BY DEF HandleNames, NoteNames
  <2>2. handle \in ToSet(fleet.handles) \cup {None} /\ note \in ToSet(snapshot.notes) \cup {None}
    BY <1>1 DEF Admits
  <2> QED
    BY <1>2, <2>1, <2>2
<1> QED
  BY <1>3

(* A step of one environment changes it to a typed one, which serves a     *)
(* snapshot if it is at work, and possibly its artifact.                   *)
LEMMA EnvironmentTypes ==
  ASSUME HeartbeatTyped, NEW s \in Sessions,
         \/ Serve(s) \/ Reset(s) \/ Observe(s) \/ Stop(s)
         \/ \E handle, note : Recommend(s, handle, note)
  PROVE  HeartbeatTyped'
<1>1. /\ env \in [Sessions -> Environments] /\ file \in Snapshots \cup {Torn}
      /\ terminal \in [Sessions -> Recommendations \cup {None}]
  BY DEF HeartbeatTyped, HeartbeatTypeOK, Environments
<1>2. env[s].alive => env[s].snapshot \in Snapshots
  BY DEF HeartbeatTyped
<1>3. UNCHANGED <<now, file, published, compiling, receipt>>
  BY DEF Serve, Reset, Observe, Stop, Recommend
<1>4. \E e \in Environments : /\ env' = [env EXCEPT ![s] = e]
                              /\ e.alive => e.snapshot \in Snapshots
  <2>1. CASE Serve(s)
    <3>1. file \in Snapshots
      BY <1>1, <2>1 DEF Serve, Loads
    <3>2. [alive |-> TRUE, snapshot |-> file, recommendation |-> None] \in Environments
      BY <3>1 DEF Environments
    <3> QED
      BY <2>1, <3>1, <3>2 DEF Serve
  <2>2. CASE Reset(s)
    <3> DEFINE e == [env[s] EXCEPT !.recommendation = None, !.snapshot = IF Loads THEN file ELSE @]
    <3>1. env[s] \in Environments /\ env[s].alive /\ env' = [env EXCEPT ![s] = e]
      BY <1>1, <2>2 DEF Reset
    <3>2. Loads => file \in Snapshots
      BY <1>1 DEF Loads
    <3>3. e \in Environments /\ e.snapshot \in Snapshots
      BY <1>2, <3>1, <3>2 DEF Environments
    <3> QED
      BY <3>1, <3>3
  <2>3. CASE Observe(s)
    <3> DEFINE e == [env[s] EXCEPT !.snapshot = file]
    <3>1. env[s] \in Environments /\ env' = [env EXCEPT ![s] = e] /\ file \in Snapshots
      BY <1>1, <2>3 DEF Observe, Loads
    <3>2. e \in Environments /\ e.snapshot = file
      BY <3>1 DEF Environments
    <3> QED
      BY <3>1, <3>2
  <2>4. CASE Stop(s)
    <3>1. env' = [env EXCEPT ![s] = Down]
      BY <2>4 DEF Stop
    <3>2. Down \in Environments /\ ~Down.alive
      BY DEF Down, Environments
    <3> QED
      BY <3>1, <3>2
  <2>5. ASSUME NEW handle, NEW note, Recommend(s, handle, note)
        PROVE  \E e \in Environments : /\ env' = [env EXCEPT ![s] = e]
                                       /\ e.alive => e.snapshot \in Snapshots
    <3> DEFINE e == [env[s] EXCEPT !.recommendation = [handle |-> handle, note |-> note]]
    <3>1. /\ env[s] \in Environments /\ env' = [env EXCEPT ![s] = e]
          /\ env[s].snapshot \in Snapshots /\ Admits(env[s].snapshot, handle, note)
      BY <1>1, <1>2, <2>5 DEF Recommend
    <3>2. handle \in HandleNames /\ note \in NoteNames
      BY <3>1, AdmittedNames
    <3>3. e \in Environments /\ e.snapshot = env[s].snapshot
      BY <3>1, <3>2 DEF Environments
    <3> QED
      BY <3>1, <3>3
  <2> QED
    BY <2>1, <2>2, <2>3, <2>4, <2>5
<1>5. terminal' \in [Sessions -> Recommendations \cup {None}]
  <2>1. CASE UNCHANGED terminal
    BY <1>1, <2>1
  <2>2. ASSUME NEW handle, NEW note, Recommend(s, handle, note)
        PROVE  terminal' \in [Sessions -> Recommendations \cup {None}]
    <3>1. env[s].snapshot \in Snapshots /\ Admits(env[s].snapshot, handle, note)
      BY <1>2, <2>2 DEF Recommend
    <3>2. [snapshot |-> env[s].snapshot, handle |-> handle, note |-> note] \in Recommendations
      BY <3>1, AdmittedNames DEF Recommendations
    <3> QED
      BY <1>1, <2>2, <3>2 DEF Recommend
  <2> QED
    BY <2>1, <2>2 DEF Serve, Reset, Observe, Stop
<1>6. HeartbeatTypeOK'
  BY <1>1, <1>3, <1>4, <1>5 DEF HeartbeatTyped, HeartbeatTypeOK, Environments
<1>7. \A q \in Sessions : env'[q].alive => env'[q].snapshot \in Snapshots
  BY <1>1, <1>4 DEF HeartbeatTyped
<1> QED
  BY <1>6, <1>7 DEF HeartbeatTyped

(* The projector and the compile command.                                  *)
LEMMA FileTypes ==
  ASSUME HeartbeatTyped, World \/ ReadSnapshot \/ Compile
  PROVE  HeartbeatTyped'
<1>1. /\ now \in 0 .. MaxNow /\ published \in 0 .. MaxPublished
      /\ file \in Snapshots \cup {Torn} /\ compiling \in Snapshots \cup {None}
      /\ MaxNow \in Nat /\ MaxPublished \in Nat
  BY HeartbeatAssumption DEF HeartbeatTyped, HeartbeatTypeOK
<1>2. UNCHANGED <<env, terminal>>
  BY DEF World, Tick, Truncate, Publish, ReadSnapshot, Compile
<1>3. now' \in 0 .. MaxNow
  BY <1>1 DEF World, Tick, Truncate, Publish, ReadSnapshot, Compile
<1>4. published' \in 0 .. MaxPublished
  BY <1>1 DEF World, Tick, Truncate, Publish, ReadSnapshot, Compile
<1>5. file' \in Snapshots \cup {Torn}
  <2>1. CASE Publish
    <3>1. PICK fleet \in Fleets, notes \in NoteLists, offset \in Offsets, ttl \in Lifetimes :
            /\ ValidFleet(fleet) /\ ttl \in 1 .. MaxSnapshotTtl
            /\ file' = [handles |-> fleet.handles, notes |-> notes,
                        observed |-> now + offset, expires |-> now + offset + ttl]
      BY <2>1 DEF Publish
    <3>2. now + offset \in Nat /\ now + offset + ttl \in Nat
      BY <1>1, <3>1, HeartbeatAssumption
    <3> QED
      BY <3>1, <3>2 DEF Snapshots
  <2> QED
    BY <1>1, <2>1 DEF World, Tick, Truncate, ReadSnapshot, Compile
<1>6. compiling' \in Snapshots \cup {None}
  BY <1>1 DEF World, Tick, Truncate, Publish, ReadSnapshot, Compile
<1>7. receipt' # None => receipt'.snapshot \in Snapshots
  <2>1. receipt # None => receipt.snapshot \in Snapshots
    BY DEF HeartbeatTyped, HeartbeatTypeOK
  <2>2. CASE Compile
    <3>1. compiling \in Snapshots
      BY <1>1, <2>2 DEF Compile
    <3> QED
      BY <2>1, <2>2, <3>1 DEF Compile, Receipt
  <2> QED
    BY <2>1, <2>2 DEF World, Tick, Truncate, Publish, ReadSnapshot
<1> QED
  BY <1>2, <1>3, <1>4, <1>5, <1>6, <1>7 DEF HeartbeatTyped, HeartbeatTypeOK

(* What a probe remembers as its source was read whole.                    *)
ProbeTyped ==
  /\ ReceiptInv /\ HeartbeatTyped
  /\ \A r \in Probes : probe[r].source \in Snapshots \cup {None}
  /\ checkout \in [head : 0 .. MaxHead, clean : BOOLEAN]

LEMMA StillTyped ==
  ASSUME HeartbeatTyped, UNCHANGED heartbeatVars
  PROVE  HeartbeatTyped'
BY DEF HeartbeatTyped, HeartbeatTypeOK, heartbeatVars

(* The part of a probe's step that the host sees.                          *)
LEMMA ProbeServes ==
  ASSUME HeartbeatTyped, NEW r \in Probes,
         \/ Inspect(r) \/ Retain(r) \/ Launch(r) \/ DriverLooks(r) \/ DriverRecommends(r)
         \/ DriverTraces(r) \/ Verify(r) \/ CompileResponse(r) \/ Sign(r) \/ Stable(r)
         \/ Manifest(r) \/ Endorse(r) \/ Report(r) \/ Die(r)
  PROVE  HeartbeatTyped'
<1>1. r \in Sessions
  BY ProbeAssumption
<1>2. \/ UNCHANGED heartbeatVars \/ Serve(r) \/ Reset(r) \/ Observe(r) \/ Stop(r)
      \/ \E handle, note : Recommend(r, handle, note)
  BY DEF Inspect, Retain, Launch, DriverLooks, DriverRecommends, DriverTraces, Verify,
         CompileResponse, Sign, Stable, Manifest, Endorse, Report, Die
<1> QED
  BY <1>1, <1>2, StillTyped, EnvironmentTypes

LEMMA ProbeSources ==
  ASSUME Shape, SnapshotsRead, NEW r \in Probes,
         \/ Inspect(r) \/ Retain(r) \/ Launch(r) \/ DriverLooks(r) \/ DriverRecommends(r)
         \/ DriverTraces(r) \/ Verify(r) \/ CompileResponse(r) \/ Sign(r) \/ Stable(r)
         \/ Manifest(r) \/ Endorse(r) \/ Report(r) \/ Die(r)
  PROVE  \A q \in Probes : \/ probe'[q].source = probe[q].source
                           \/ probe'[q].source \in Snapshots \cup {None}
<1>1. CASE Inspect(r)
  <2>1. file # Torn => file \in Snapshots
    BY DEF SnapshotsRead
  <2>2. \A q \in Probes \ {r} : probe'[q] = probe[q]
    BY <1>1 DEF Inspect, Shape
  <2>3. probe'[r].source \in Snapshots \cup {None}
    BY <1>1, <2>1 DEF Inspect, Shape, Idle
  <2> QED
    BY <2>2, <2>3
<1>2. CASE Die(r)
  BY <1>2 DEF Die, Shape, Idle
<1>3. CASE Verify(r)
  BY <1>3 DEF Verify, Shape, Idle
<1>4. CASE Sign(r)
  BY <1>4 DEF Sign, Shape, Idle
<1>5. CASE \/ Retain(r) \/ Launch(r) \/ DriverLooks(r) \/ DriverRecommends(r) \/ DriverTraces(r)
           \/ CompileResponse(r) \/ Stable(r) \/ Manifest(r) \/ Endorse(r) \/ Report(r)
  <2>1. UNCHANGED probe \/ \E pc : Goto(r, pc)
    BY <1>5 DEF Retain, Launch, DriverLooks, probeVars, DriverRecommends, DriverTraces,
                CompileResponse, Stable, Manifest, Endorse, Report
  <2> QED
    BY <2>1 DEF Goto, Shape, Idle
<1> QED
  BY <1>1, <1>2, <1>3, <1>4, <1>5

LEMMA ProbeTypedStep == ProbeTyped /\ [AdvisoryNext]_vars => ProbeTyped'
<1> SUFFICES ASSUME ProbeTyped, [AdvisoryNext]_vars PROVE ProbeTyped'
  OBVIOUS
<1>1. ReceiptInv'
  BY ReceiptStep DEF ProbeTyped
<1>2. HeartbeatTyped /\ Shape /\ SnapshotsRead
  BY DEF ProbeTyped, ReceiptInv
<1>3. CASE Commit
  <2>1. checkout' \in [head : 0 .. MaxHead, clean : BOOLEAN]
    <3>1. /\ checkout.head \in 0 .. MaxHead /\ MaxHead \in Nat
          /\ checkout = [head |-> checkout.head, clean |-> checkout.clean]
      BY ProbeAssumption DEF ProbeTyped
    <3>2. CASE checkout' = [checkout EXCEPT !.clean = FALSE]
      BY <3>1, <3>2
    <3>3. CASE /\ checkout.head < MaxHead
               /\ checkout' = [head |-> checkout.head + 1, clean |-> TRUE]
      <4>1. checkout.head + 1 \in 0 .. MaxHead
        BY <3>1, <3>3
      <4> QED
        BY <3>3, <4>1
    <3> QED
      BY <1>3, <3>2, <3>3 DEF Commit
  <2>2. HeartbeatTyped' /\ UNCHANGED probe
    BY <1>2, <1>3, StillTyped DEF Commit
  <2> QED
    BY <1>1, <2>1, <2>2 DEF ProbeTyped
<1>4. CASE ProbeNext /\ ~Commit
  <2>1. PICK r \in Probes :
          \/ Inspect(r) \/ Retain(r) \/ Launch(r) \/ DriverLooks(r) \/ DriverRecommends(r)
          \/ DriverTraces(r) \/ Verify(r) \/ CompileResponse(r) \/ Sign(r) \/ Stable(r)
          \/ Manifest(r) \/ Endorse(r) \/ Report(r) \/ Die(r)
    BY <1>4 DEF ProbeNext
  <2>2. HeartbeatTyped'
    BY <1>2, <2>1, ProbeServes
  <2>3. \A q \in Probes : probe'[q].source \in Snapshots \cup {None}
    BY <1>2, <2>1, ProbeSources DEF ProbeTyped
  <2>4. UNCHANGED checkout
    BY <2>1 DEF Inspect, Retain, Launch, DriverLooks, probeVars, DriverRecommends, DriverTraces,
                Verify, CompileResponse, Sign, Stable, Manifest, Endorse, Report, Die
  <2> QED
    BY <1>1, <2>2, <2>3, <2>4 DEF ProbeTyped
<1>5. CASE (World \/ OperatorNext) /\ UNCHANGED probeVars
  <2>1. Operator \in Sessions
    BY HeartbeatAssumption
  <2>2. HeartbeatTyped'
    BY <1>2, <1>5, <2>1, FileTypes, EnvironmentTypes DEF OperatorNext
  <2> QED
    BY <1>1, <1>5, <2>2 DEF ProbeTyped, probeVars
<1>6. CASE UNCHANGED vars
  <2>1. UNCHANGED heartbeatVars /\ UNCHANGED <<probe, checkout>>
    BY <1>6 DEF vars, probeVars
  <2> QED
    BY <1>1, <1>2, <2>1, StillTyped DEF ProbeTyped
<1> QED
  BY <1>3, <1>4, <1>5, <1>6 DEF AdvisoryNext

(* Whatever is torn, published, reset or killed in between, environments,  *)
(* artifacts, the compile command and the probes hold snapshots that were  *)
(* whole, handles of a valid fleet and notes of a list, or nothing.        *)
THEOREM ProbeTypes == AdvisorySpec => []ProbeTypeOK
<1>1. HeartbeatInit /\ ProbeInit => ProbeTyped
  <2> SUFFICES ASSUME HeartbeatInit, ProbeInit PROVE ProbeTyped
    OBVIOUS
  <2>1. Shape /\ \A r \in Probes : ~Running(r) /\ probe[r].source = None
    BY DEF ProbeInit, Idle, Shape, Running
  <2>2. receipt = None /\ evidence["response"] = None
    BY DEF HeartbeatInit, ProbeInit, Evidence
  <2>3. ReceiptInv
    BY <2>1, <2>2 DEF HeartbeatInit, ReceiptInv, SnapshotsRead, ReceiptWithinSnapshot
  <2>4. HeartbeatTyped
    BY HeartbeatAssumption DEF HeartbeatInit, HeartbeatTyped, HeartbeatTypeOK, Down
  <2>5. checkout \in [head : 0 .. MaxHead, clean : BOOLEAN]
    BY ProbeAssumption DEF ProbeInit
  <2> QED
    BY <2>1, <2>3, <2>4, <2>5 DEF ProbeTyped
<1>2. ProbeTyped => ProbeTypeOK
  BY DEF ProbeTyped, ProbeTypeOK, HeartbeatTyped, ReceiptInv, Shape
<1> QED
  BY <1>1, <1>2, ProbeTypedStep, PTL DEF AdvisorySpec
=============================================================================
