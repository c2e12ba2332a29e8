------------------------------- MODULE Splits -------------------------------
(***************************************************************************)
(* split.py and data_audit.py: a corpus is cut into four sides by shuffled *)
(* groups of records, and the sides are audited before they are trained    *)
(* on.  The two programs choose the group key by rules of their own.       *)
(*                                                                         *)
(* A side is the set of the positions its records have in the corpus, and  *)
(* fractions are in tenths.                                                *)
(***************************************************************************)
EXTENDS Rules, FiniteSets, SequencesExt

CONSTANTS Corpora,         \* the corpora to split
          SplitRequests    \* group keys and fractions asked for

ASSUME SplitsAssumption ==
  /\ \A records \in Corpora : records \in Seq(Range(records))
  /\ \A r \in SplitRequests : r.train \in Int /\ r.validation \in Int /\ r.calibration \in Int

NoSplit == <<>>         \* the program refused
Sides == <<"train", "validation", "calibration", "test">>

VARIABLES corpus, splitRequest, splits, audit
splitVars == <<corpus, splitRequest, splits, audit>>

(* The metadata of a record may lack the key (None) or hold nothing (""). *)
HasFamily(record) == record.family # None

Refused(records, r) ==
  \/ r.validation < 0 \/ r.calibration < 0
  \/ r.train + r.validation + r.calibration >= 10
  \/ r.train <= 0
  \/ r.key = "family_id" /\ \E i \in DOMAIN records : ~HasFamily(records[i])

(* _effective_group_key: "auto" groups when every record has a family. *)
Grouped(records, key) ==
  \/ key = "family_id"
  \/ key = "auto" /\ records # <<>> /\ \A i \in DOMAIN records : HasFamily(records[i])

(* The group of a record: its family, or itself alone. *)
GroupOf(records, key, i) ==
  IF Grouped(records, key) THEN {j \in DOMAIN records : records[j].family = records[i].family} ELSE {i}

Groups(records, key) == {GroupOf(records, key, i) : i \in DOMAIN records}

Share(total, tenths) == (total * tenths) \div 10

(* Where each side ends among the shuffled groups; the test side has what  *)
(* the others leave.                                                       *)
Ends(total, r) ==
  LET train == Share(total, r.train)
      validation == train + Share(total, r.validation)
  IN <<0, train, validation, validation + Share(total, r.calibration), total>>

Cut(shuffled, r) ==
  LET ends == Ends(Len(shuffled), r)
  IN [s \in DOMAIN Sides |-> UNION {shuffled[k] : k \in ends[s] + 1 .. ends[s + 1]}]

SplitInit == corpus \in Corpora /\ splitRequest \in SplitRequests /\ splits = None /\ audit = None

(* split_records.  The groups are sorted, so that their order depends on   *)
(* the seed alone, and shuffled: any order, for some seed.                 *)
SplitCorpus ==
  /\ corpus # None /\ splits = None
  /\ ~Refused(corpus, splitRequest)
  /\ \E shuffled \in SetToSeqs(Groups(corpus, splitRequest.key)) : splits' = Cut(shuffled, splitRequest)
  /\ UNCHANGED <<corpus, splitRequest, audit>>

SplitRefused ==
  /\ corpus # None /\ splits = None
  /\ Refused(corpus, splitRequest)
  /\ splits' = NoSplit
  /\ UNCHANGED <<corpus, splitRequest, audit>>
---------------------------------------------------------------------------
(* Mutant: the audit chooses the key as the split does. *)
AuditGroupedByAll(records, key) == Grouped(records, key)

(* audit_dataset_splits: "auto" groups when some record has a family. *)
AuditGrouped(records, key) ==
  \/ key = "family_id"
  \/ key = "auto" /\ \E i \in DOMAIN records : HasFamily(records[i])

Blank(record) == record.family \in {None, ""}

(* _overlaps: some value of one side is a value of another one. *)
Overlap(values) == \E s, t \in DOMAIN values : s # t /\ values[s] \cap values[t] # {}

Issues(records, sides, key) ==
  LET grouped  == AuditGrouped(records, key)
      states   == [s \in DOMAIN sides |-> {records[i].state : i \in sides[s]}]
      families == [s \in DOMAIN sides |-> {records[i].family : i \in {j \in sides[s] : ~Blank(records[j])}}]
  IN { issue \in {"empty", "unlabelled", "missing", "semantic", "group"} :
        \/ issue = "empty"      /\ \E s \in DOMAIN sides : sides[s] = {}
        \/ issue = "unlabelled" /\ \E i \in DOMAIN records : ~records[i].labelled
        \/ issue = "missing"    /\ grouped /\ \E i \in DOMAIN records : Blank(records[i])
        \/ issue = "semantic"   /\ Overlap(states)
        \/ issue = "group"      /\ grouped /\ Overlap(families) }

AuditSplits ==
  /\ splits \notin {None, NoSplit} /\ audit = None
  /\ \E key \in {"auto", "none"} :
       audit' = [key |-> key, issues |-> Issues(corpus, splits, key)]
  /\ UNCHANGED <<corpus, splitRequest, splits>>

SplitNext == SplitCorpus \/ SplitRefused \/ AuditSplits

SplitSpec == SplitInit /\ [][SplitNext]_splitVars
---------------------------------------------------------------------------
SplitTypeOK ==
  /\ splits \notin {None, NoSplit} => splits \in [DOMAIN Sides -> SUBSET DOMAIN corpus]
  /\ audit # None => audit.issues \subseteq {"empty", "unlabelled", "missing", "semantic", "group"}

(* A split loses no record and repeats none; and what passes the audit has *)
(* no state and no family on two sides, even where only some records have  *)
(* a family, so that the split went by single records.                     *)
NoLeakage ==
  splits \notin {None, NoSplit} =>
    /\ \A i \in DOMAIN corpus : \E s \in DOMAIN splits :
         i \in splits[s] /\ \A t \in DOMAIN splits : i \in splits[t] => t = s
    /\ audit # None /\ audit.key = "auto" /\ audit.issues = {} =>
         \A s, t \in DOMAIN splits : s # t =>
           \A i \in splits[s], j \in splits[t] :
             /\ corpus[i].state # corpus[j].state
             /\ HasFamily(corpus[i]) => corpus[i].family # corpus[j].family
=============================================================================
