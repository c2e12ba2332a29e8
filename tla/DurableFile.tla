----------------------------- MODULE DurableFile -----------------------------
(***************************************************************************)
(* What atomic_write_bytes of src/my_jev/locking.py promises about one     *)
(* destination: its contents are a history of whole payloads, of which a   *)
(* prefix is on disk; a power loss goes back to that prefix.               *)
(***************************************************************************)
EXTENDS Integers, Sequences

CONSTANT Payloads   \* what the destination may hold, the absence of a file included

VARIABLES
  log,     \* the successive contents of the destination
  stable   \* how many of them would survive a power loss

cell == <<log, stable>>

Init ==
  /\ \E v \in Payloads : log = <<v>>
  /\ stable = 1

\* A reader sees all of the new payload at once.
Write ==
  /\ \E v \in Payloads : log' = Append(log, v)
  /\ UNCHANGED stable

Persist ==
  /\ \E n \in stable + 1 .. Len(log) : stable' = n
  /\ UNCHANGED log

PowerLoss ==
  /\ log' = SubSeq(log, 1, stable)
  /\ UNCHANGED stable

Next == Write \/ Persist \/ PowerLoss

Spec == Init /\ [][Next]_cell
==============================================================================
