---------------------------- MODULE HarnessProbe ----------------------------
(***************************************************************************)
(* The scripted probe of the harness router: it retains the snapshot it    *)
(* read, has the router's driver run an environment of its own over the    *)
(* live snapshot file, checks what the driver left, compiles, signs and    *)
(* reports.  Probes may die between any two writes and be started again,   *)
(* and the source checkouts may move under them.                           *)
(***************************************************************************)
EXTENDS Heartbeat

CONSTANTS
  Probes,            \* runs of the probe, all with the same --output-dir
  Exclusive,         \* TRUE: nobody starts one while another is running
  MaxHead            \* bound on the commits

ASSUME ProbeAssumption ==
  Probes \subseteq Sessions \ {Operator} /\ Exclusive \in BOOLEAN /\ MaxHead \in Nat

Evidence == {"snapshot", "recommendation", "trace", "response", "signature",
             "manifest", "manifest_signature", "report"}

VARIABLES
  probe,        \* run -> where it is and what it remembers
  evidence,     \* evidence file of the directory -> None or [by, is]
  checkout      \* the source checkouts: their head, and whether they are clean

probeVars == <<probe, evidence, checkout>>
vars == <<heartbeatVars, probeVars>>

Idle == [pc |-> "idle", signs |-> FALSE, source |-> None, head |-> 0,
         recommendation |-> None, signature |-> None]

ProbeInit ==
  /\ probe = [r \in Probes |-> Idle]
  /\ evidence = [f \in Evidence |-> None]
  /\ checkout = [head |-> 0, clean |-> TRUE]

Running(r) == probe[r].pc \notin {"idle", "failed", "done"}
At(r, pc) == probe[r].pc = pc
Goto(r, pc) == probe' = [probe EXCEPT ![r].pc = pc]
Keep(r, f, content) == evidence' = [evidence EXCEPT ![f] = [by |-> r, is |-> content]]

(* mutant: only the files written last are looked for *)
NoFinalEvidence == evidence["manifest"] = None /\ evidence["report"] = None

NoEvidence == \A f \in Evidence : evidence[f] = None

(* Clean checkouts, a readable snapshot and a directory without evidence. *)
Inspect(r) ==
  /\ At(r, "idle")
  /\ Exclusive => \A q \in Probes : ~Running(q)
  /\ \E signs \in BOOLEAN :
       probe' = [probe EXCEPT ![r] =
         IF checkout.clean /\ file # Torn /\ NoEvidence
         THEN [Idle EXCEPT !.pc = "retain", !.signs = signs, !.source = file, !.head = checkout.head]
         ELSE [Idle EXCEPT !.pc = "failed"]]
  /\ UNCHANGED <<heartbeatVars, evidence, checkout>>

Retain(r) ==
  /\ At(r, "retain")
  /\ Keep(r, "snapshot", probe[r].source)
  /\ Goto(r, "launch")
  /\ UNCHANGED <<heartbeatVars, checkout>>

(* The launcher serves the live file, not the retained copy. *)
Launch(r) ==
  /\ At(r, "launch")
  /\ Serve(r)
  /\ Goto(r, "drive")
  /\ UNCHANGED <<evidence, checkout>>

DriverLooks(r) ==
  /\ At(r, "drive")
  /\ Observe(r) \/ Reset(r)
  /\ UNCHANGED probeVars

FirstOf(s) == IF s = <<>> THEN None ELSE Head(s)

(* The script of the job: the first handle and note of the source snapshot. *)
DriverRecommends(r) ==
  /\ At(r, "drive")
  /\ Recommend(r, FirstOf(probe[r].source.handles), FirstOf(probe[r].source.notes))
  /\ Keep(r, "recommendation", terminal'[r])
  /\ Goto(r, "trace")
  /\ UNCHANGED checkout

DriverTraces(r) ==
  /\ At(r, "trace")
  /\ Keep(r, "trace", r)
  /\ Stop(r)
  /\ Goto(r, "verify")
  /\ UNCHANGED checkout

(* What the driver left is read from the files. *)
Verify(r) ==
  LET rec == evidence["recommendation"].is
  IN /\ At(r, "verify")
     /\ probe' = [probe EXCEPT ![r].pc =
                    IF /\ rec.snapshot = probe[r].source
                       /\ rec.handle = FirstOf(probe[r].source.handles)
                       /\ rec.note = FirstOf(probe[r].source.notes)
                    THEN "compile" ELSE "failed",
                  ![r].recommendation = rec]
     /\ UNCHANGED <<heartbeatVars, evidence, checkout>>

CompileResponse(r) ==
  /\ At(r, "compile")
  /\ \E ttl \in 1 .. MaxTtl, preferred \in Qualifications :
       IF Compilable(probe[r].source, probe[r].recommendation, now, preferred)
       THEN LET response == Receipt(probe[r].source, probe[r].recommendation, now, ttl)
            IN /\ Keep(r, "response", response)
               /\ Goto(r, IF probe[r].signs THEN "sign" ELSE "stable")
       ELSE Goto(r, "failed") /\ UNCHANGED evidence
  /\ UNCHANGED <<heartbeatVars, checkout>>

(* The signature is over the bytes the file holds now. *)
Sign(r) ==
  /\ At(r, "sign")
  /\ Keep(r, "signature", evidence["response"].is)
  /\ probe' = [probe EXCEPT ![r].pc = "stable", ![r].signature = evidence["response"].is]
  /\ UNCHANGED <<heartbeatVars, checkout>>

Stable(r) ==
  /\ At(r, "stable")
  /\ Goto(r, IF ~checkout.clean \/ checkout.head # probe[r].head THEN "failed"
             ELSE IF probe[r].signs THEN "manifest" ELSE "report")
  /\ UNCHANGED <<heartbeatVars, evidence, checkout>>

Bound == {"snapshot", "recommendation", "trace", "response", "signature"}

Drifted(r) ==
  \/ evidence["snapshot"].is # probe[r].source
  \/ evidence["recommendation"].is # probe[r].recommendation
  \/ evidence["trace"].is # r
  \/ evidence["response"].is # probe[r].signature

(* Every artifact is read again before its hash goes into the manifest. *)
Manifest(r) ==
  /\ At(r, "manifest")
  /\ IF Drifted(r)
     THEN Goto(r, "failed") /\ UNCHANGED evidence
     ELSE /\ Keep(r, "manifest", [f \in Bound |-> evidence[f].is])
          /\ Goto(r, "endorse")
  /\ UNCHANGED <<heartbeatVars, checkout>>

Endorse(r) ==
  /\ At(r, "endorse")
  /\ Keep(r, "manifest_signature", evidence["manifest"].is)
  /\ Goto(r, "report")
  /\ UNCHANGED <<heartbeatVars, checkout>>

Assertions(r) ==
  probe[r].signs =>
    /\ probe[r].signature = evidence["response"].is
    /\ evidence["manifest"].is["response"] = evidence["response"].is
    /\ evidence["manifest"].is["signature"] = evidence["signature"].is
    /\ evidence["manifest_signature"].is = evidence["manifest"].is

Report(r) ==
  /\ At(r, "report")
  /\ Keep(r, "report", IF Assertions(r) THEN "pass" ELSE "fail")
  /\ Goto(r, "done")
  /\ UNCHANGED <<heartbeatVars, checkout>>

(* An exception, a driver that fails, or the death of the process. *)
Die(r) ==
  /\ Running(r)
  /\ probe' = [probe EXCEPT ![r] = [Idle EXCEPT !.pc = "failed"]]
  /\ IF env[r].alive THEN Stop(r) ELSE UNCHANGED heartbeatVars
  /\ UNCHANGED <<evidence, checkout>>

Commit ==
  /\ checkout.head < MaxHead
  /\ \/ checkout.clean /\ checkout' = [checkout EXCEPT !.clean = FALSE]
     \/ ~checkout.clean /\ checkout' = [head |-> checkout.head + 1, clean |-> TRUE]
  /\ UNCHANGED <<heartbeatVars, probe, evidence>>

ProbeNext ==
  \/ Commit
  \/ \E r \in Probes :
       \/ Inspect(r) \/ Retain(r) \/ Launch(r) \/ DriverLooks(r) \/ DriverRecommends(r)
       \/ DriverTraces(r) \/ Verify(r) \/ CompileResponse(r) \/ Sign(r) \/ Stable(r)
       \/ Manifest(r) \/ Endorse(r) \/ Report(r) \/ Die(r)

AdvisoryNext ==
  \/ ProbeNext
  \/ (World \/ OperatorNext) /\ UNCHANGED probeVars

AdvisorySpec == HeartbeatInit /\ ProbeInit /\ [][AdvisoryNext]_vars
---------------------------------------------------------------------------
ProbeTypeOK ==
  /\ HeartbeatTypeOK
  /\ \A r \in Probes : probe[r].source \in Snapshots \cup {None}
  /\ DOMAIN evidence = Evidence
  /\ checkout \in [head : 0 .. MaxHead, clean : BOOLEAN]

(* A receipt, the operator's or a probe's, speaks for one snapshot: it     *)
(* names a handle and a note of that snapshot, never outlives it and lives *)
(* no longer than a receipt may, whatever was published, reset or compiled *)
(* late in between.                                                        *)
ReceiptWithinSnapshot ==
  /\ receipt # None => WithinSnapshot(receipt)
  /\ evidence["response"] # None => WithinSnapshot(evidence["response"].is)

(* "refusing to overwrite existing probe evidence": a file a run has left  *)
(* as evidence, finished or not, is what it is for ever.                   *)
EvidenceNeverOverwritten ==
  [][\A f \in Evidence : evidence[f] # None => evidence'[f] = evidence[f]]_vars
=============================================================================
