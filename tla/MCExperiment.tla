----------------------------- MODULE MCExperiment -----------------------------
(* Two runs on a host of two cards. *)
EXTENDS Experiment, TLC

CONSTANTS r1, r2, NoParent, Unknown

\* A spec and a command line with nothing unusual: no plan, no parent.
Plain == [dry |-> FALSE, blocking |-> FALSE, fleet |-> FALSE, device |-> [s \in {} |-> "cuda:0"],
          parent |-> "none", data |-> "d1", gates |-> TRUE]

AllOn(c) == [s \in {"train", "calibrate", "benchmark"} |-> c]
Planned(device) == [Plain EXCEPT !.device = device]

\* Leases and stages: plans that keep a run on one card, waiting or not.
UniformConfigs ==
  {Plain, [Plain EXCEPT !.blocking = TRUE],
   Planned(AllOn("cuda:0")), Planned(AllOn("cuda:1")),
   [Planned(AllOn("cuda:0")) EXCEPT !.blocking = TRUE]}

\* ... and plans that do not, or that name what does not exist.
MixedConfigs ==
  UniformConfigs \cup
  {Planned([s \in {"train"} |-> "cuda:1"]),
   Planned([train |-> "cuda:1", benchmark |-> "cuda:0"]),
   Planned([train |-> "cuda:0", benchmark |-> Malformed]),
   Planned([s \in {"train"} |-> Malformed]),
   Planned([s \in {"fleet_benchmark"} |-> "cuda:1"]),
   [Plain EXCEPT !.fleet = TRUE, !.device = [s \in {"fleet_benchmark"} |-> "cuda:1"]],
   [Plain EXCEPT !.dry = TRUE], [Plain EXCEPT !.gates = FALSE]}

\* Lineage: parents and evaluation data.
Linked(p, d) == [Planned(AllOn("cuda:0")) EXCEPT !.parent = p, !.data = d]

\* Any plan, and parents of every kind.
AllConfigs ==
  MixedConfigs \cup
  {Linked("latest_promoted", "d1"), Linked("latest_promoted", "d2"), Linked("ghost", "d1"),
   Linked(r1, "d1")}
===============================================================================
