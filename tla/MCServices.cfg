SPECIFICATION MCSpec
CONSTANTS
  None = None
  Torn = Torn
  Nothing = Nothing
  NaN = NaN
  Infinity = Infinity
  Absent = Absent
  NoFile = NoFile
  Unlabelled = Unlabelled
  user = user
  r1 = r1
  r2 = r2
  h1 = h1
  h2 = h2
  n1 = n1
  s1 = s1
  s2 = s2
  q1 = q1
  q2 = q2
  w1 = w1
  w2 = w2
  c1 = c1
  c2 = c2
  Sessions = {user, r1, r2}
  Operator = user
  Probes = {r1, r2}
  Exclusive = TRUE
  MaxHead = 1
  Fleets <- MCFleets
  NoteLists <- MCNoteLists
  Qualifications <- MCQualifications
  MaxNow = 2
  MaxPublished = 2
  Lifetimes = {2, 3}
  Offsets = {0, 2}
  MaxSnapshotTtl = 2
  MaxTtl = 2
  Skew = 1
  Captures = {c1, c2}
  Records <- MCRecords
  Models <- MCModels
  Revisions = {1, 2}
  PromptContract = 1
  Builds = {0, 1}
  Taps = 4
  Hidden = 2
  Layers = 4
  Context = 2
  Float = 4
  MaxChanges = 1
  Corpora <- MCCorpora
  Scores = {1, 2, 3}
  Epochs = 3
  GradAccum = 2
  Runs = {1, 2, 3}
  Programs = {"prepare", "mix", "label"}
  Questions = {1, 2}
  Untrusted = {"shadow_prediction"}
  MaxVersions = 3
CHECK_DEADLOCK FALSE
INVARIANTS
  MCTypeOK
  ReceiptWithinSnapshot
  
  
  BestIsEarned
  PrepareManifestIsTrue
  OnlyBridge
PROPERTY
  EvidenceNeverOverwritten
