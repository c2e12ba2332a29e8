------------------------- MODULE BonsaiCaptureProofs -------------------------
(***************************************************************************)
(* Proofs about module BonsaiCapture, for any number of captures, any      *)
(* records, models and builds.  CaptureInv says that at most one capture   *)
(* is under way, a bridge that outlived its provider included, and that    *)
(* what is in the frame file while a capture is under way is what its own  *)
(* bridge has written of its own record.                                   *)
(***************************************************************************)
EXTENDS BonsaiCapture, TLAPS, WellFoundedInduction, NaturalsInduction

(* Induction over the numbers is by the least counterexample. *)
LEMMA LeastExists ==
  ASSUME NEW S \in SUBSET Nat, S # {}
  PROVE  \E n \in S : \A m \in S : ~ (m < n)
<1>1. IsWellFoundedOn(OpToRel(<, Nat), Nat)
  BY NatLessThanWellFounded
<1>2. \E n \in S : \A m \in S : <<m, n>> \notin OpToRel(<, Nat)
  BY <1>1, WFMin, Zenon
<1>3. PICK n \in S : \A m \in S : <<m, n>> \notin OpToRel(<, Nat)
  BY <1>2
<1>4. \A m \in S : ~ (m < n)
  BY <1>3 DEF OpToRel
<1> QED
  BY <1>4

(* The counts of the options *)

OptionsOK(questions) ==
  /\ questions \in Seq(Range(questions))
  /\ \A i \in DOMAIN questions : questions[i].options \in Nat \ {0, 1}

(* f counts the options of the first questions, up to the n-th. *)
CountsTo(f, questions, n) ==
  /\ f \in [0 .. n -> Nat] /\ f[0] = 0
  /\ \A i \in 1 .. n : f[i] = f[i - 1] + questions[i].options

LEMMA CountExtends ==
  ASSUME NEW questions, OptionsOK(questions), NEW n \in Nat, n < Len(questions),
         NEW f, CountsTo(f, questions, n)
  PROVE  \E g : CountsTo(g, questions, n + 1)
<1> DEFINE g == [i \in 0 .. n + 1 |-> IF i = n + 1 THEN f[n] + questions[n + 1].options ELSE f[i]]
<1>1. n + 1 \in DOMAIN questions /\ questions[n + 1].options \in Nat
  BY DEF OptionsOK
<1>2. f \in [0 .. n -> Nat] /\ f[0] = 0 /\ \A i \in 1 .. n : f[i] = f[i - 1] + questions[i].options
  BY DEF CountsTo
<1>3. f[n] + questions[n + 1].options \in Nat
  BY <1>1, <1>2
<1>4. g \in [0 .. n + 1 -> Nat] /\ g[0] = 0
  BY <1>2, <1>3
<1>5. ASSUME NEW i \in 1 .. n + 1 PROVE g[i] = g[i - 1] + questions[i].options
  <2>1. CASE i = n + 1
    BY <2>1
  <2>2. CASE i # n + 1
    BY <1>2, <2>2
  <2> QED
    BY <2>1, <2>2
<1>6. CountsTo(g, questions, n + 1)
  BY <1>4, <1>5 DEF CountsTo
<1> QED
  BY <1>6

Counted(questions, n) == \E f : CountsTo(f, questions, n)

LEMMA CountsExist ==
  ASSUME NEW questions, OptionsOK(questions)
  PROVE  \A n \in 0 .. Len(questions) : Counted(questions, n)
<1> DEFINE Missing == {n \in Nat : n <= Len(questions) /\ ~ Counted(questions, n)}
<1>1. Len(questions) \in Nat
  BY DEF OptionsOK
<1>2. Counted(questions, 0)
  <2>1. CountsTo([i \in 0 .. 0 |-> 0], questions, 0)
    BY DEF CountsTo
  <2> QED
    BY <2>1 DEF Counted
<1>3. ASSUME NEW n \in Missing, \A m \in Missing : ~ (m < n) PROVE FALSE
  <2>1. n # 0
    BY <1>2
  <2>2. n - 1 \in Nat /\ n - 1 < n /\ n - 1 < Len(questions) /\ (n - 1) + 1 = n
    BY <1>1, <2>1
  <2>3. Counted(questions, n - 1)
    BY <1>1, <1>3, <2>2
  <2>4. PICK f : CountsTo(f, questions, n - 1)
    BY <2>3 DEF Counted
  <2>5. Counted(questions, n)
    BY <2>2, <2>4, CountExtends DEF Counted
  <2> QED
    BY <2>5
<1>4. Missing = {}
  <2>1. Missing \subseteq Nat
    OBVIOUS
  <2> HIDE DEF Missing
  <2> QED
    BY <1>3, <2>1, LeastExists
<1> QED
  BY <1>1, <1>4

(* OptionOffset is such a count. *)
LEMMA OffsetsCount ==
  ASSUME NEW questions, OptionsOK(questions)
  PROVE  CountsTo(OptionOffset(questions), questions, Len(questions))
<1> DEFINE Eq(f) == f = [n \in 0 .. Len(questions) |->
                           IF n = 0 THEN 0 ELSE f[n - 1] + questions[n].options]
<1>1. Len(questions) \in Nat
  BY DEF OptionsOK
<1>2. PICK f : CountsTo(f, questions, Len(questions))
  BY <1>1, CountsExist DEF Counted
<1>3. Eq(f)
  BY <1>1, <1>2 DEF CountsTo
<1>4. OptionOffset(questions) = CHOOSE g : Eq(g)
  BY DEF OptionOffset
<1>5. Eq(OptionOffset(questions))
  <2> HIDE DEF Eq
  <2> QED
    BY <1>3, <1>4
<1> DEFINE o == OptionOffset(questions)
<1> HIDE DEF o
<1>6. o = [n \in 0 .. Len(questions) |-> IF n = 0 THEN 0 ELSE o[n - 1] + questions[n].options]
  BY <1>5 DEF o
<1>7. o[0] = 0 /\ \A n \in 1 .. Len(questions) : o[n] = o[n - 1] + questions[n].options
  BY <1>1, <1>6
<1> DEFINE Odd == {n \in Nat : n <= Len(questions) /\ o[n] \notin Nat}
<1>8. ASSUME NEW n \in Odd, \A m \in Odd : ~ (m < n) PROVE FALSE
  <2>1. n # 0 /\ n \in 1 .. Len(questions)
    BY <1>1, <1>7
  <2>2. o[n - 1] \in Nat
    BY <1>1, <1>8, <2>1
  <2>3. questions[n].options \in Nat
    BY <2>1 DEF OptionsOK
  <2> QED
    BY <1>7, <2>1, <2>2, <2>3
<1>9. Odd = {}
  <2>1. Odd \subseteq Nat
    OBVIOUS
  <2> HIDE DEF Odd
  <2> QED
    BY <1>8, <2>1, LeastExists
<1>10. o \in [0 .. Len(questions) -> Nat]
  <2>1. \A n \in 0 .. Len(questions) : o[n] \in Nat
    BY <1>1, <1>9
  <2>2. \E e : o = [n \in 0 .. Len(questions) |-> e[n]]
    <3>1. o = [n \in 0 .. Len(questions) |-> o[n]]
      BY <1>6
    <3> QED
      BY <3>1
  <2> QED
    BY <2>1, <2>2
<1>11. CountsTo(o, questions, Len(questions))
  BY <1>7, <1>10 DEF CountsTo
<1> QED
  BY <1>11 DEF o

LEMMA OffsetsGrow ==
  ASSUME NEW questions, OptionsOK(questions), NEW i \in 1 .. Len(questions)
  PROVE  /\ OptionOffset(questions)[i - 1] \in Nat /\ OptionOffset(questions)[i] \in Nat
         /\ OptionOffset(questions)[i] = OptionOffset(questions)[i - 1] + questions[i].options
         /\ OptionOffset(questions)[i - 1] < OptionOffset(questions)[i]
         /\ OptionOffset(questions)[i] <= OptionCount(questions)
<1> DEFINE o == OptionOffset(questions)
           last == Len(questions)
           Short == {n \in Nat : n \in i .. last /\ ~ (o[i] <= o[n])}
<1> HIDE DEF o
<1>1. last \in Nat /\ DOMAIN questions = 1 .. last
  BY DEF OptionsOK
<1>2. o \in [0 .. last -> Nat] /\ \A n \in 1 .. last : o[n] = o[n - 1] + questions[n].options
  BY OffsetsCount DEF CountsTo, o
<1>3. \A n \in 1 .. last : questions[n].options \in Nat \ {0, 1}
  BY <1>1 DEF OptionsOK
<1> HIDE DEF last
<1>4. ASSUME NEW n \in Short, \A m \in Short : ~ (m < n) PROVE FALSE
  <2>1. n \in 1 .. last /\ i \in 1 .. last /\ i <= n
    BY <1>1 DEF last
  <2>2. n # i
    BY <1>2, <2>1, <1>1
  <2>3. n - 1 \in Nat /\ n - 1 \in i .. last /\ n - 1 < n /\ n - 1 \in 0 .. last
    BY <1>1, <2>1, <2>2
  <2>4. o[i] <= o[n - 1]
    BY <1>4, <2>3
  <2>5. o[n - 1] \in Nat /\ o[n] \in Nat /\ o[i] \in Nat
    <3>1. n - 1 \in 0 .. last /\ n \in 0 .. last /\ i \in 0 .. last
      BY <1>1, <2>1, <2>3
    <3> QED
      BY <1>2, <3>1
  <2>7. questions[n].options \in Nat /\ o[n] = o[n - 1] + questions[n].options
    BY <1>2, <1>3, <2>1
  <2>6. ~ (o[i] <= o[n])
    OBVIOUS
  <2> QED
    BY <2>4, <2>5, <2>6, <2>7
<1>5. Short = {}
  <2>1. Short \subseteq Nat
    OBVIOUS
  <2> HIDE DEF Short
  <2> QED
    BY <1>4, <2>1, LeastExists
<1>6. i \in 1 .. last
  BY DEF last
<1>7. o[i] <= o[last]
  BY <1>1, <1>5, <1>6
<1>8. /\ o[i - 1] \in Nat /\ o[i] \in Nat /\ questions[i].options \in Nat \ {0, 1}
      /\ o[i] = o[i - 1] + questions[i].options
  BY <1>1, <1>2, <1>3, <1>6
<1>9. o[i - 1] < o[i]
  BY <1>8
<1> QED
  BY <1>7, <1>8, <1>9 DEF OptionCount, o, last

LEMMA CountIsNat ==
  ASSUME NEW questions, OptionsOK(questions)
  PROVE  OptionCount(questions) \in Nat
<1>1. Len(questions) \in Nat
  BY DEF OptionsOK
<1>2. OptionOffset(questions) \in [0 .. Len(questions) -> Nat]
  BY OffsetsCount DEF CountsTo
<1> QED
  BY <1>1, <1>2 DEF OptionCount
---------------------------------------------------------------------------
(* The sizes of the tensors *)

LEMMA SizeOfFour ==
  ASSUME NEW a \in Nat, NEW b \in Nat, NEW c \in Nat, NEW d \in Nat
  PROVE  Size(<<a, b, c, d>>) = a * b * c * d
<1> DEFINE shape == <<a, b, c, d>>
           Eq(f) == f = [n \in 0 .. Len(shape) |-> IF n = 0 THEN 1 ELSE f[n - 1] * shape[n]]
           g == [n \in 0 .. 4 |-> IF n = 0 THEN 1 ELSE IF n = 1 THEN a ELSE
                                  IF n = 2 THEN a * b ELSE IF n = 3 THEN a * b * c ELSE a * b * c * d]
           p == CHOOSE f : Eq(f)
<1>1. Len(shape) = 4
  OBVIOUS
<1>2. Eq(g)
  <2>1. ASSUME NEW n \in 0 .. 4 PROVE g[n] = IF n = 0 THEN 1 ELSE g[n - 1] * shape[n]
    <3>1. n = 0 \/ n = 1 \/ n = 2 \/ n = 3 \/ n = 4
      OBVIOUS
    <3> QED
      BY <3>1
  <2>2. g = [n \in 0 .. 4 |-> IF n = 0 THEN 1 ELSE g[n - 1] * shape[n]]
    <3>1. g = [n \in 0 .. 4 |-> g[n]]
      OBVIOUS
    <3> HIDE DEF g
    <3> QED
      BY <2>1, <3>1
  <2> QED
    BY <1>1, <2>2
<1>3. Eq(p)
  <2> HIDE DEF Eq, g
  <2> QED
    BY <1>2
<1>4. Size(shape) = p[4]
  BY <1>1 DEF Size
<1> HIDE DEF p
<1>5. p = [n \in 0 .. 4 |-> IF n = 0 THEN 1 ELSE p[n - 1] * shape[n]]
  BY <1>1, <1>3
<1>6. p[0] = 1 /\ p[1] = p[0] * a /\ p[2] = p[1] * b /\ p[3] = p[2] * c /\ p[4] = p[3] * d
  BY <1>5
<1> QED
  BY <1>4, <1>6

LEMMA SizeOfTwo ==
  ASSUME NEW a \in Nat, NEW b \in Nat
  PROVE  Size(<<a, b>>) = a * b
<1> DEFINE shape == <<a, b>>
           Eq(f) == f = [n \in 0 .. Len(shape) |-> IF n = 0 THEN 1 ELSE f[n - 1] * shape[n]]
           g == [n \in 0 .. 2 |-> IF n = 0 THEN 1 ELSE IF n = 1 THEN a ELSE a * b]
           p == CHOOSE f : Eq(f)
<1>1. Len(shape) = 2
  OBVIOUS
<1>2. Eq(g)
  <2>1. ASSUME NEW n \in 0 .. 2 PROVE g[n] = IF n = 0 THEN 1 ELSE g[n - 1] * shape[n]
    <3>1. n = 0 \/ n = 1 \/ n = 2
      OBVIOUS
    <3> QED
      BY <3>1
  <2>2. g = [n \in 0 .. 2 |-> IF n = 0 THEN 1 ELSE g[n - 1] * shape[n]]
    <3>1. g = [n \in 0 .. 2 |-> g[n]]
      OBVIOUS
    <3> HIDE DEF g
    <3> QED
      BY <2>1, <3>1
  <2> QED
    BY <1>1, <2>2
<1>3. Eq(p)
  <2> HIDE DEF Eq, g
  <2> QED
    BY <1>2
<1>4. Size(shape) = p[2]
  BY <1>1 DEF Size
<1> HIDE DEF p
<1>5. p = [n \in 0 .. 2 |-> IF n = 0 THEN 1 ELSE p[n - 1] * shape[n]]
  BY <1>1, <1>3
<1>6. p[0] = 1 /\ p[1] = p[0] * a /\ p[2] = p[1] * b
  BY <1>5
<1> QED
  BY <1>4, <1>6

LEMMA WrittenHasFive ==
  ASSUME NEW record
  PROVE  Written(record) \in Seq({Written(record)[i] : i \in 1 .. 5}) /\ Len(Written(record)) = 5
BY DEF Written
---------------------------------------------------------------------------
(* Writer and reader agree: what the bridge writes of a record whose       *)
(* questions all have names, the reader accepts.                           *)

Named(record) == \A i \in DOMAIN record.questions : record.questions[i].name # Nothing

LEMMA RecordsAreOK ==
  ASSUME NEW record \in Records
  PROVE  /\ OptionsOK(record.questions) /\ record.tokens \in Nat
         /\ OptionCount(record.questions) \in Nat
<1>1. OptionsOK(record.questions) /\ record.tokens \in Nat
  BY RecordsAssumption DEF OptionsOK
<1> QED
  BY <1>1, CountIsNat

LEMMA GroupsAreValid ==
  ASSUME NEW record \in Records, Named(record), NEW i \in DOMAIN Grouped(record.questions)
  PROVE  ValidGroup(Grouped(record.questions)[i], OptionCount(record.questions))
<1> DEFINE questions == record.questions
           o == OptionOffset(questions)
<1>1. OptionsOK(questions) /\ OptionCount(questions) \in Nat
  BY RecordsAreOK
<1>2. i \in DOMAIN questions
  BY DEF Grouped
<1>3. i \in 1 .. Len(questions) /\ questions[i].options \in Nat
  BY <1>1, <1>2 DEF OptionsOK
<1>4. /\ o[i - 1] \in Nat /\ o[i] \in Nat /\ o[i] = o[i - 1] + questions[i].options
      /\ o[i - 1] < o[i] /\ o[i] <= OptionCount(questions)
  BY <1>1, <1>3, OffsetsGrow
<1>5. questions[i].name # Nothing
  BY <1>2 DEF Named
<1>6. /\ Grouped(questions)[i].question = questions[i]
      /\ Grouped(questions)[i].start = o[i - 1] /\ Grouped(questions)[i].end = o[i]
  BY <1>2 DEF Grouped
<1> HIDE DEF questions, o
<1>7. ValidGroup(Grouped(questions)[i], OptionCount(questions))
  BY <1>1, <1>3, <1>4, <1>5, <1>6 DEF ValidGroup
<1> QED
  BY <1>7 DEF questions

LEMMA WholeIsReadable ==
  ASSUME NEW record \in Records, NEW sha, NEW head, NEW contract, NEW file,
         file.header = Header(record, sha, head, contract), file.parts = Written(record)
  PROVE  Readable(file)
<1> DEFINE tokens == record.tokens
           options == OptionCount(record.questions)
<1>1. tokens \in Nat /\ options \in Nat
  BY RecordsAreOK
<1>2. Taps \in Nat /\ Hidden \in Nat /\ Float \in Nat
  BY CaptureAssumption
<1>3. /\ file.header.bytes = [state |-> Taps * tokens * Hidden * Float, state_mask |-> tokens,
                               options |-> options * Taps * Hidden * Float, option_mask |-> options]
      /\ file.header.shape = [state |-> <<1, Taps, tokens, Hidden>>, state_mask |-> <<1, tokens>>,
                               options |-> <<1, options, Taps, Hidden>>, option_mask |-> <<1, options>>]
  BY DEF Header
<1>4. /\ DOMAIN file.parts = 1 .. 5
      /\ file.parts[2][2] = Taps * (tokens * Hidden * Float) /\ file.parts[3][2] = tokens
      /\ file.parts[4][2] = options * (Taps * (Hidden * Float)) /\ file.parts[5][2] = options
  BY DEF Written
<1> HIDE DEF tokens, options
<1>5. /\ Size(<<1, Taps, tokens, Hidden>>) = 1 * Taps * tokens * Hidden
      /\ Size(<<1, tokens>>) = 1 * tokens
      /\ Size(<<1, options, Taps, Hidden>>) = 1 * options * Taps * Hidden
      /\ Size(<<1, options>>) = 1 * options
  BY <1>1, <1>2, SizeOfFour, SizeOfTwo
<1>6. /\ Taps * (tokens * Hidden * Float) = Taps * tokens * Hidden * Float
      /\ options * (Taps * (Hidden * Float)) = options * Taps * Hidden * Float
      /\ 1 * Taps * tokens * Hidden = Taps * tokens * Hidden
      /\ 1 * options * Taps * Hidden = options * Taps * Hidden
      /\ 1 * tokens = tokens * 1 /\ 1 * options = options * 1 /\ 1 * tokens = tokens /\ 1 * options = options
  BY <1>1, <1>2
<1>7. ASSUME NEW i \in 1 .. 4
      PROVE  LET k == <<"state", "state_mask", "options", "option_mask">>[i]
             IN /\ i + 1 \in DOMAIN file.parts
                /\ file.parts[i + 1][2] = file.header.bytes[k]
                /\ file.header.bytes[k] = Size(file.header.shape[k]) * IF k \in {"state", "options"} THEN Float ELSE 1
  <2>1. CASE i = 1
    BY <1>3, <1>4, <1>5, <1>6, <2>1
  <2>2. CASE i = 2
    BY <1>3, <1>4, <1>5, <1>6, <2>2
  <2>3. CASE i = 3
    BY <1>3, <1>4, <1>5, <1>6, <2>3
  <2>4. CASE i = 4
    BY <1>3, <1>4, <1>5, <1>6, <2>4
  <2> QED
    BY <2>1, <2>2, <2>3, <2>4
<1> QED
  BY <1>7 DEF Readable

LEMMA WholeIsAccepted ==
  ASSUME NEW c \in Captures, NEW file, capture[c].record \in Records, Named(capture[c].record),
         file.header = Header(capture[c].record, capture[c].sha, capture[c].revision, PromptContract),
         file.parts = Written(capture[c].record)
  PROVE  Accepted(file, c)
<1> DEFINE record == capture[c].record
           options == OptionCount(record.questions)
           header == file.header
<1>1. Readable(file)
  BY WholeIsReadable
<1>2. /\ header.sha = capture[c].sha /\ header.revision = capture[c].revision
      /\ header.contract = PromptContract /\ header.groups = Grouped(record.questions)
      /\ header.shape.state = <<1, Taps, record.tokens, Hidden>> /\ header.shape.state_mask = <<1, record.tokens>>
      /\ header.shape.options = <<1, options, Taps, Hidden>> /\ header.shape.option_mask = <<1, options>>
  BY DEF Header
<1>3. \A i \in DOMAIN header.groups : ValidGroup(header.groups[i], options)
  BY <1>2, GroupsAreValid
<1>4. [i \in DOMAIN header.groups |-> header.groups[i].question] = record.questions
  <2>1. record.questions = [i \in DOMAIN record.questions |-> record.questions[i]]
    BY RecordsAreOK DEF OptionsOK
  <2>2. DOMAIN header.groups = DOMAIN record.questions
    BY <1>2 DEF Grouped
  <2>3. \A i \in DOMAIN record.questions : header.groups[i].question = record.questions[i]
    <3>1. \A i \in DOMAIN record.questions : Grouped(record.questions)[i].question = record.questions[i]
      BY DEF Grouped
    <3> QED
      BY <1>2, <3>1
  <2> HIDE DEF record, header
  <2> QED
    BY <2>1, <2>2, <2>3
<1> HIDE DEF record, options, header
<1>5. ValidFrame(header)
  BY <1>2, <1>3 DEF ValidFrame
<1>6. Expected(header, c)
  BY <1>2, <1>4 DEF Expected, record
<1> QED
  BY <1>1, <1>5, <1>6 DEF Accepted, header
---------------------------------------------------------------------------
(* The inductive invariant *)

CapturePcs == {"idle", "pinned", "waiting", "validated", "reported", "raised", "failed", "killed"}
BridgePcs  == {"none", "loading", "decoding", "opening", "writing", "exited"}

Fields ==
  /\ DOMAIN capture = Captures /\ DOMAIN bridge = Captures
  /\ \A c \in Captures : /\ DOMAIN capture[c] = {"pc", "record", "sha", "revision", "frame"}
                          /\ DOMAIN bridge[c] = {"pc", "loaded", "code"}
  /\ DOMAIN output = {"by", "header", "parts", "data"}

FilesOK ==
  /\ model \in Models /\ revision \in Revisions /\ changes \in 0 .. MaxChanges /\ build \in Builds
  /\ output.by \in Captures \cup {Nothing} /\ Len(output.parts) \in 0 .. 5

ProcessOK(c) ==
  /\ capture[c].pc \in CapturePcs /\ bridge[c].pc \in BridgePcs
  /\ bridge[c].loaded \in Models \cup {Nothing} /\ bridge[c].code \in {0, 1}
  /\ capture[c].pc = "idle" => capture[c] = NoCapture
  /\ capture[c].pc # "idle" =>
       capture[c].record \in Records /\ capture[c].sha \in Models /\ capture[c].revision \in Revisions
  /\ capture[c].pc \in {"idle", "pinned"} => bridge[c].pc = "none"

BridgeRuns(c) == bridge[c].pc \notin {"none", "exited"}
UnderWay(c) == capture[c].pc \in {"pinned", "waiting"} \/ BridgeRuns(c)

OneAtATime == \A c, d \in Captures : UnderWay(c) /\ UnderWay(d) => c = d

(* What is in the frame file is what the bridge of c wrote of its record. *)
Mine(c) ==
  LET record == capture[c].record
  IN /\ output.by = c /\ output.data.record = record
     /\ output.header = Header(record, capture[c].sha, capture[c].revision, build)
     /\ Named(record)
     /\ output.parts \in Seq({Written(record)[i] : i \in 1 .. 5})
     /\ Len(output.parts) <= 5
     /\ \A i \in DOMAIN output.parts : output.parts[i] = Written(record)[i]

WroteAll(c) == capture[c].pc = "waiting" /\ bridge[c].pc = "exited" /\ bridge[c].code = 0

BridgeOK(c) ==
  /\ BridgeRuns(c) => Named(capture[c].record)
  /\ bridge[c].pc = "writing" \/ WroteAll(c) => Mine(c)

FrameOK(c) ==
  capture[c].frame # NoFrame =>
    /\ capture[c].frame.by = c
    /\ capture[c].frame.data.record = capture[c].record
    /\ Len(capture[c].frame.parts) = Len(Written(capture[c].record))

CaptureInv ==
  /\ Fields /\ FilesOK /\ OneAtATime
  /\ \A c \in Captures : ProcessOK(c) /\ BridgeOK(c) /\ FrameOK(c)

LEMMA InitialCapture == CaptureInit => CaptureInv
<1> SUFFICES ASSUME CaptureInit PROVE CaptureInv
  OBVIOUS
<1>1. Fields
  BY DEF CaptureInit, Fields, NoCapture, NoBridge, NoFrame
<1>2. FilesOK
  BY CaptureAssumption DEF CaptureInit, FilesOK, NoFrame
<1>3. ASSUME NEW c \in Captures
      PROVE  /\ capture[c] = NoCapture /\ bridge[c] = NoBridge /\ ~ UnderWay(c)
             /\ ProcessOK(c) /\ BridgeOK(c) /\ FrameOK(c)
  <2>1. capture[c] = NoCapture /\ bridge[c] = NoBridge
    BY DEF CaptureInit
  <2>2. /\ capture[c].pc = "idle" /\ capture[c].frame = NoFrame
        /\ bridge[c].pc = "none" /\ bridge[c].loaded = Nothing /\ bridge[c].code = 0
    BY <2>1 DEF NoCapture, NoBridge
  <2>3. ~ UnderWay(c) /\ ~ BridgeRuns(c) /\ ~ WroteAll(c) /\ bridge[c].pc # "writing"
    BY <2>2 DEF UnderWay, BridgeRuns, WroteAll
  <2> QED
    BY <2>1, <2>2, <2>3 DEF ProcessOK, BridgeOK, FrameOK, CapturePcs, BridgePcs
<1>4. OneAtATime
  BY <1>3 DEF OneAtATime
<1> QED
  BY <1>1, <1>2, <1>3, <1>4 DEF CaptureInv
---------------------------------------------------------------------------
(* What the helpers of the actions change *)

CaptureFields == \A c \in Captures : DOMAIN capture[c] = {"pc", "record", "sha", "revision", "frame"}
BridgeFields == \A c \in Captures : DOMAIN bridge[c] = {"pc", "loaded", "code"}

LEMMA CaptureBecomes ==
  ASSUME Fields, NEW c \in Captures, NEW s, Become(c, s)
  PROVE  /\ DOMAIN capture' = Captures /\ CaptureFields'
         /\ \A d \in Captures \ {c} : capture'[d] = capture[d]
         /\ capture'[c].pc = s /\ capture'[c].record = capture[c].record /\ capture'[c].sha = capture[c].sha
         /\ capture'[c].revision = capture[c].revision /\ capture'[c].frame = capture[c].frame
BY DEF Fields, Become, CaptureFields

LEMMA BridgeBecomes ==
  ASSUME Fields, NEW c \in Captures, NEW s, BridgeIs(c, s)
  PROVE  /\ DOMAIN bridge' = Captures /\ BridgeFields'
         /\ \A d \in Captures \ {c} : bridge'[d] = bridge[d]
         /\ bridge'[c].pc = s /\ bridge'[c].loaded = bridge[c].loaded /\ bridge'[c].code = bridge[c].code
BY DEF Fields, BridgeIs, BridgeFields

LEMMA BridgeExits ==
  ASSUME Fields, NEW c \in Captures, NEW code, Exit(c, code)
  PROVE  /\ DOMAIN bridge' = Captures /\ BridgeFields'
         /\ \A d \in Captures \ {c} : bridge'[d] = bridge[d]
         /\ bridge'[c].pc = "exited" /\ bridge'[c].loaded = bridge[c].loaded /\ bridge'[c].code = code
BY DEF Fields, Exit, BridgeFields

(* A step of one capture or its bridge leaves the others' part of the       *)
(* invariant alone if it starts only where nobody is under way, and writes  *)
(* the frame file only while it is under way itself.                        *)
LEMMA OneActs ==
  ASSUME CaptureInv, NEW c \in Captures, Fields', FilesOK', build' = build,
         \A d \in Captures \ {c} : capture'[d] = capture[d] /\ bridge'[d] = bridge[d],
         ProcessOK(c)', BridgeOK(c)', FrameOK(c)',
         UnderWay(c)' => UnderWay(c) \/ \A d \in Captures : ~ UnderWay(d),
         output' # output => UnderWay(c)
  PROVE  CaptureInv'
<1>1. ASSUME NEW d \in Captures \ {c} PROVE ProcessOK(d)' /\ BridgeOK(d)' /\ FrameOK(d)'
  <2>1. ProcessOK(d) /\ BridgeOK(d) /\ FrameOK(d) /\ capture'[d] = capture[d] /\ bridge'[d] = bridge[d]
    BY DEF CaptureInv
  <2>2. ProcessOK(d)'
    BY <2>1 DEF ProcessOK
  <2>3. FrameOK(d)'
    BY <2>1 DEF FrameOK
  <2>4. BridgeRuns(d)' => Named(capture'[d].record)
    BY <2>1 DEF BridgeOK, BridgeRuns
  <2>5. ASSUME bridge'[d].pc = "writing" \/ WroteAll(d)' PROVE Mine(d)'
    <3>1. UnderWay(d)
      BY <2>1, <2>5 DEF UnderWay, BridgeRuns, WroteAll
    <3>2. output' = output
      BY <3>1 DEF CaptureInv, OneAtATime
    <3>3. Mine(d)
      BY <2>1, <2>5 DEF BridgeOK, WroteAll
    <3> QED
      BY <2>1, <3>2, <3>3 DEF Mine
  <2>6. BridgeOK(d)'
    BY <2>4, <2>5 DEF BridgeOK
  <2> QED
    BY <2>2, <2>3, <2>6
<1>2. OneAtATime'
  <2>1. \A d \in Captures \ {c} : UnderWay(d)' = UnderWay(d)
    BY DEF UnderWay, BridgeRuns
  <2>2. SUFFICES ASSUME NEW d \in Captures, NEW e \in Captures, UnderWay(d)', UnderWay(e)'
                 PROVE  d = e
    BY DEF OneAtATime
  <2>3. OneAtATime
    BY DEF CaptureInv
  <2>4. CASE d = c /\ e # c
    <3>1. UnderWay(e)
      BY <2>1, <2>2, <2>4
    <3> QED
      BY <2>2, <2>3, <2>4, <3>1 DEF OneAtATime
  <2>5. CASE d # c /\ e = c
    <3>1. UnderWay(d)
      BY <2>1, <2>2, <2>5
    <3> QED
      BY <2>2, <2>3, <2>5, <3>1 DEF OneAtATime
  <2>6. CASE d # c /\ e # c
    BY <2>1, <2>2, <2>3, <2>6 DEF OneAtATime
  <2> QED
    BY <2>4, <2>5, <2>6
<1> QED
  BY <1>1, <1>2 DEF CaptureInv
---------------------------------------------------------------------------
(* One lemma per action *)

LEMMA ConstructStep ==
  ASSUME CaptureInv, NEW c \in Captures, Construct(c)
  PROVE  CaptureInv'
<1>1. PICK record \in Records : capture' = [capture EXCEPT ![c] =
        [pc |-> "pinned", record |-> record, sha |-> model, revision |-> revision, frame |-> NoFrame]]
  BY DEF Construct
<1>2. UNCHANGED <<model, revision, changes, build, bridge, output>> /\ capture[c].pc = "idle" /\ ~ Busy
  BY DEF Construct
<1>3. Fields /\ FilesOK /\ ProcessOK(c)
  BY DEF CaptureInv
<1>4. /\ capture'[c] = [pc |-> "pinned", record |-> record, sha |-> model, revision |-> revision, frame |-> NoFrame]
      /\ DOMAIN capture' = Captures /\ \A d \in Captures \ {c} : capture'[d] = capture[d]
  BY <1>1, <1>3 DEF Fields
<1>5. Fields'
  BY <1>2, <1>3, <1>4 DEF Fields
<1>6. FilesOK'
  BY <1>2, <1>3 DEF FilesOK
<1>7. bridge'[c] = bridge[c] /\ bridge[c].pc = "none"
  BY <1>2, <1>3 DEF ProcessOK
<1>8. ProcessOK(c)'
  BY <1>2, <1>3, <1>4, <1>7 DEF ProcessOK, FilesOK, CapturePcs
<1>9. BridgeOK(c)'
  BY <1>4, <1>7 DEF BridgeOK, BridgeRuns, WroteAll
<1>10. FrameOK(c)'
  BY <1>4 DEF FrameOK
<1>11. \A d \in Captures : ~ UnderWay(d)
  BY <1>2 DEF Busy, UnderWay, BridgeRuns
<1> QED
  BY <1>2, <1>4, <1>5, <1>6, <1>8, <1>9, <1>10, <1>11, OneActs

LEMMA LaunchStep ==
  ASSUME CaptureInv, NEW c \in Captures, LaunchBridge(c)
  PROVE  CaptureInv'
<1>1. /\ UNCHANGED <<model, revision, changes, build, output>> /\ capture[c].pc = "pinned"
      /\ Become(c, "waiting")
      /\ IF Named(capture[c].record) THEN BridgeIs(c, "loading") ELSE Exit(c, 1)
  BY DEF LaunchBridge, Named
<1>2. Fields /\ FilesOK /\ ProcessOK(c) /\ FrameOK(c)
  BY DEF CaptureInv
<1>3. /\ DOMAIN capture' = Captures /\ CaptureFields'
      /\ \A d \in Captures \ {c} : capture'[d] = capture[d]
      /\ capture'[c].pc = "waiting" /\ capture'[c].record = capture[c].record /\ capture'[c].sha = capture[c].sha
      /\ capture'[c].revision = capture[c].revision /\ capture'[c].frame = capture[c].frame
  BY <1>1, <1>2, CaptureBecomes
<1>4. /\ DOMAIN bridge' = Captures /\ BridgeFields'
      /\ \A d \in Captures \ {c} : bridge'[d] = bridge[d]
      /\ bridge'[c].loaded = bridge[c].loaded
      /\ \/ bridge'[c].pc = "loading" /\ Named(capture[c].record) /\ bridge'[c].code = bridge[c].code
         \/ bridge'[c].pc = "exited" /\ bridge'[c].code = 1
  <2>1. CASE Named(capture[c].record)
    BY <1>1, <1>2, <2>1, BridgeBecomes
  <2>2. CASE ~ Named(capture[c].record)
    BY <1>1, <1>2, <2>2, BridgeExits
  <2> QED
    BY <2>1, <2>2
<1>5. Fields'
  BY <1>1, <1>2, <1>3, <1>4 DEF Fields, CaptureFields, BridgeFields
<1>6. FilesOK'
  BY <1>1, <1>2 DEF FilesOK
<1>7. ProcessOK(c)'
  BY <1>1, <1>2, <1>3, <1>4 DEF ProcessOK, CapturePcs, BridgePcs
<1>8. BridgeOK(c)'
  BY <1>3, <1>4 DEF BridgeOK, BridgeRuns, WroteAll
<1>9. FrameOK(c)'
  BY <1>2, <1>3 DEF FrameOK
<1>10. UnderWay(c)
  BY <1>1 DEF UnderWay
<1> QED
  BY <1>1, <1>3, <1>4, <1>5, <1>6, <1>7, <1>8, <1>9, <1>10, OneActs

(* A frame that was accepted is there to its last part. *)
LEMMA AcceptedIsWhole ==
  ASSUME NEW c \in Captures, Mine(c), Accepted(output, c)
  PROVE  Len(output.parts) = Len(Written(capture[c].record))
<1>1. 4 + 1 \in DOMAIN output.parts
  BY DEF Accepted, Readable
<1>2. Len(output.parts) <= 5 /\ DOMAIN output.parts = 1 .. Len(output.parts) /\ Len(output.parts) \in Nat
  BY DEF Mine
<1> DEFINE n == Len(output.parts)
<1>3. 4 + 1 \in 1 .. n /\ n \in Nat /\ n <= 5
  BY <1>1, <1>2
<1>4. n = 5
  <2> HIDE DEF n
  <2> QED
    BY <1>3
<1> QED
  BY <1>4, WrittenHasFive

LEMMA CollectStep ==
  ASSUME CaptureInv, NEW c \in Captures, CollectFrame(c)
  PROVE  CaptureInv'
<1>1. /\ UNCHANGED <<model, revision, changes, build, bridge, output>>
      /\ capture[c].pc = "waiting" /\ bridge[c].pc = "exited"
  BY DEF CollectFrame
<1>2. Fields /\ FilesOK /\ ProcessOK(c) /\ BridgeOK(c) /\ FrameOK(c)
  BY DEF CaptureInv
<1>3. /\ DOMAIN capture' = Captures /\ CaptureFields'
      /\ \A d \in Captures \ {c} : capture'[d] = capture[d]
      /\ capture'[c].record = capture[c].record /\ capture'[c].sha = capture[c].sha
      /\ capture'[c].revision = capture[c].revision
      /\ \/ capture'[c].pc = "failed" /\ capture'[c].frame = capture[c].frame
         \/ /\ capture'[c].pc = "validated" /\ capture'[c].frame = output
            /\ bridge[c].code = 0 /\ Accepted(output, c)
  <2>1. CASE bridge[c].code = 0 /\ Accepted(output, c)
    <3>1. capture' = [capture EXCEPT ![c].pc = "validated", ![c].frame = output]
      BY <2>1 DEF CollectFrame
    <3>2. /\ DOMAIN capture' = Captures /\ CaptureFields'
          /\ \A d \in Captures \ {c} : capture'[d] = capture[d]
      BY <1>2, <3>1 DEF Fields, CaptureFields
    <3>3. /\ capture'[c].record = capture[c].record /\ capture'[c].sha = capture[c].sha
          /\ capture'[c].revision = capture[c].revision
          /\ capture'[c].pc = "validated" /\ capture'[c].frame = output
      BY <1>2, <3>1 DEF Fields
    <3> QED
      BY <2>1, <3>2, <3>3
  <2>2. CASE ~ (bridge[c].code = 0 /\ Accepted(output, c))
    <3>1. Become(c, "failed")
      BY <2>2 DEF CollectFrame
    <3> QED
      BY <1>2, <3>1, CaptureBecomes
  <2> QED
    BY <2>1, <2>2
<1>4. Fields'
  BY <1>1, <1>2, <1>3 DEF Fields, CaptureFields
<1>5. FilesOK'
  BY <1>1, <1>2 DEF FilesOK
<1>6. ProcessOK(c)'
  BY <1>1, <1>2, <1>3 DEF ProcessOK, CapturePcs
<1>7. BridgeOK(c)'
  BY <1>1, <1>3 DEF BridgeOK, BridgeRuns, WroteAll
<1>8. FrameOK(c)'
  <2>1. CASE capture'[c].frame = capture[c].frame
    BY <1>2, <1>3, <2>1 DEF FrameOK
  <2>2. CASE capture'[c].frame = output /\ bridge[c].code = 0 /\ Accepted(output, c)
    <3>1. Mine(c)
      BY <1>1, <1>2, <2>2 DEF BridgeOK, WroteAll
    <3>2. Len(output.parts) = Len(Written(capture[c].record))
      BY <2>2, <3>1, AcceptedIsWhole
    <3> QED
      BY <1>3, <2>2, <3>1, <3>2 DEF FrameOK, Mine
  <2> QED
    BY <1>3, <2>1, <2>2
<1>9. UnderWay(c)
  BY <1>1 DEF UnderWay
<1> QED
  BY <1>1, <1>3, <1>4, <1>5, <1>6, <1>7, <1>8, <1>9, OneActs

(* A receipt, or a kill: the provider ends, and its bridge goes on. *)
LEMMA ProviderEnds ==
  ASSUME CaptureInv, NEW c \in Captures, NEW s \in {"reported", "raised", "killed"},
         capture[c].pc # "idle", Become(c, s),
         UNCHANGED <<model, revision, changes, build, bridge, output>>
  PROVE  CaptureInv'
<1>1. Fields /\ FilesOK /\ ProcessOK(c) /\ BridgeOK(c) /\ FrameOK(c)
  BY DEF CaptureInv
<1>2. /\ DOMAIN capture' = Captures /\ CaptureFields'
      /\ \A d \in Captures \ {c} : capture'[d] = capture[d]
      /\ capture'[c].pc = s /\ capture'[c].record = capture[c].record /\ capture'[c].sha = capture[c].sha
      /\ capture'[c].revision = capture[c].revision /\ capture'[c].frame = capture[c].frame
  BY <1>1, CaptureBecomes
<1>3. Fields'
  BY <1>1, <1>2 DEF Fields, CaptureFields
<1>4. FilesOK'
  BY <1>1 DEF FilesOK
<1>5. ProcessOK(c)'
  BY <1>1, <1>2 DEF ProcessOK, CapturePcs
<1>6. BridgeOK(c)'
  <2>1. bridge[c].pc = "writing" => Mine(c)'
    BY <1>1, <1>2 DEF BridgeOK, Mine
  <2> QED
    BY <1>1, <1>2, <2>1 DEF BridgeOK, BridgeRuns, WroteAll
<1>7. FrameOK(c)'
  BY <1>1, <1>2 DEF FrameOK
<1>8. UnderWay(c)' => UnderWay(c)
  BY <1>2 DEF UnderWay, BridgeRuns
<1> QED
  BY <1>2, <1>3, <1>4, <1>5, <1>6, <1>7, <1>8, OneActs

(* A bridge ends, or comes a step nearer to its frame. *)
LEMMA BridgeMoves ==
  ASSUME CaptureInv, NEW c \in Captures, BridgeRuns(c), DOMAIN bridge' = Captures, BridgeFields',
         \A d \in Captures \ {c} : bridge'[d] = bridge[d],
         bridge'[c].pc \in {"decoding", "opening", "exited"},
         bridge'[c].pc = "exited" => bridge'[c].code # 0,
         bridge'[c].loaded \in Models \cup {Nothing}, bridge'[c].code \in {0, 1},
         UNCHANGED <<model, revision, changes, build, capture, output>>
  PROVE  CaptureInv'
<1>1. Fields /\ FilesOK /\ ProcessOK(c) /\ BridgeOK(c) /\ FrameOK(c)
  BY DEF CaptureInv
<1>2. Fields'
  BY <1>1 DEF Fields, BridgeFields
<1>3. FilesOK'
  BY <1>1 DEF FilesOK
<1>4. ProcessOK(c)'
  BY <1>1 DEF ProcessOK, BridgePcs, BridgeRuns
<1>5. BridgeOK(c)'
  BY <1>1 DEF BridgeOK, BridgeRuns, WroteAll
<1>6. FrameOK(c)'
  BY <1>1 DEF FrameOK
<1>7. UnderWay(c)
  BY DEF UnderWay
<1> QED
  BY <1>2, <1>3, <1>4, <1>5, <1>6, <1>7, OneActs

LEMMA LoadStep ==
  ASSUME CaptureInv, NEW c \in Captures, LoadModel(c)
  PROVE  CaptureInv'
<1>1. /\ UNCHANGED <<model, revision, changes, build, capture, output>>
      /\ bridge[c].pc = "loading"
      /\ \/ bridge' = [bridge EXCEPT ![c].pc = "decoding", ![c].loaded = model]
         \/ Exit(c, 1)
  BY DEF LoadModel
<1>2. Fields /\ FilesOK /\ ProcessOK(c) /\ BridgeRuns(c)
  BY <1>1 DEF CaptureInv, BridgeRuns
<1>3. CASE bridge' = [bridge EXCEPT ![c].pc = "decoding", ![c].loaded = model]
  <2>1. /\ DOMAIN bridge' = Captures /\ BridgeFields'
        /\ \A d \in Captures \ {c} : bridge'[d] = bridge[d]
    BY <1>2, <1>3 DEF Fields, BridgeFields
  <2>2. bridge'[c].pc = "decoding" /\ bridge'[c].loaded = model /\ bridge'[c].code = bridge[c].code
    BY <1>2, <1>3 DEF Fields
  <2>3. bridge'[c].loaded \in Models \cup {Nothing} /\ bridge'[c].code \in {0, 1}
    BY <1>2, <2>2 DEF FilesOK, ProcessOK
  <2> QED
    BY <1>1, <1>2, <2>1, <2>2, <2>3, BridgeMoves
<1>4. CASE Exit(c, 1)
  <2>1. /\ DOMAIN bridge' = Captures /\ BridgeFields'
        /\ \A d \in Captures \ {c} : bridge'[d] = bridge[d]
        /\ bridge'[c].pc = "exited" /\ bridge'[c].loaded = bridge[c].loaded /\ bridge'[c].code = 1
    BY <1>2, <1>4, BridgeExits
  <2>2. bridge'[c].loaded \in Models \cup {Nothing}
    BY <1>2, <2>1 DEF ProcessOK
  <2> QED
    BY <1>1, <1>2, <2>1, <2>2, BridgeMoves
<1> QED
  BY <1>1, <1>3, <1>4

LEMMA DecodeStep ==
  ASSUME CaptureInv, NEW c \in Captures, Decode(c) \/ BridgeDies(c)
  PROVE  CaptureInv'
<1>1. /\ UNCHANGED <<model, revision, changes, build, capture, output>>
      /\ bridge[c].pc \in {"loading", "decoding", "opening", "writing"}
      /\ BridgeIs(c, "opening") \/ Exit(c, 1)
  BY DEF Decode, BridgeDies
<1>2. Fields /\ ProcessOK(c) /\ BridgeRuns(c)
  BY <1>1 DEF CaptureInv, BridgeRuns
<1>3. /\ DOMAIN bridge' = Captures /\ BridgeFields'
      /\ \A d \in Captures \ {c} : bridge'[d] = bridge[d]
      /\ bridge'[c].loaded = bridge[c].loaded
      /\ \/ bridge'[c].pc = "opening" /\ bridge'[c].code = bridge[c].code
         \/ bridge'[c].pc = "exited" /\ bridge'[c].code = 1
  <2>1. CASE BridgeIs(c, "opening")
    BY <1>2, <2>1, BridgeBecomes
  <2>2. CASE Exit(c, 1)
    BY <1>2, <2>2, BridgeExits
  <2> QED
    BY <1>1, <2>1, <2>2
<1>4. bridge'[c].loaded \in Models \cup {Nothing} /\ bridge'[c].code \in {0, 1}
  BY <1>2, <1>3 DEF ProcessOK
<1> QED
  BY <1>1, <1>2, <1>3, <1>4, BridgeMoves

LEMMA OpenStep ==
  ASSUME CaptureInv, NEW c \in Captures, OpenOutput(c)
  PROVE  CaptureInv'
<1>1. /\ UNCHANGED <<model, revision, changes, build, capture>>
      /\ bridge[c].pc = "opening" /\ BridgeIs(c, "writing")
      /\ output' = [by |-> c, header |-> Header(capture[c].record, capture[c].sha, capture[c].revision, build),
                    parts |-> <<>>, data |-> [record |-> capture[c].record, model |-> bridge[c].loaded]]
  BY DEF OpenOutput
<1>2. Fields /\ FilesOK /\ ProcessOK(c) /\ BridgeOK(c) /\ FrameOK(c) /\ BridgeRuns(c) /\ UnderWay(c)
  BY <1>1 DEF CaptureInv, BridgeRuns, UnderWay
<1>3. /\ DOMAIN bridge' = Captures /\ BridgeFields'
      /\ \A d \in Captures \ {c} : bridge'[d] = bridge[d]
      /\ bridge'[c].pc = "writing" /\ bridge'[c].loaded = bridge[c].loaded /\ bridge'[c].code = bridge[c].code
  BY <1>1, <1>2, BridgeBecomes
<1>4. Fields'
  BY <1>1, <1>2, <1>3 DEF Fields, BridgeFields
<1>5. FilesOK'
  BY <1>1, <1>2 DEF FilesOK
<1>6. ProcessOK(c)'
  BY <1>1, <1>2, <1>3 DEF ProcessOK, BridgePcs, BridgeRuns
<1>7. Mine(c)'
  BY <1>1, <1>2 DEF Mine, BridgeOK
<1>8. BridgeOK(c)'
  BY <1>1, <1>2, <1>7 DEF BridgeOK
<1>9. FrameOK(c)'
  BY <1>1, <1>2 DEF FrameOK
<1> QED
  BY <1>1, <1>2, <1>3, <1>4, <1>5, <1>6, <1>8, <1>9, OneActs

LEMMA WriteStep ==
  ASSUME CaptureInv, NEW c \in Captures, WritePart(c)
  PROVE  CaptureInv'
<1> DEFINE written == Written(capture[c].record)
           Part == {written[i] : i \in 1 .. 5}
<1>1. /\ UNCHANGED <<model, revision, changes, build, capture, bridge>>
      /\ bridge[c].pc = "writing" /\ Len(output.parts) < Len(written)
      /\ output' = [output EXCEPT !.parts = Append(@, written[Len(@) + 1])]
  BY DEF WritePart
<1>2. /\ Fields /\ FilesOK /\ ProcessOK(c) /\ BridgeOK(c) /\ FrameOK(c) /\ BridgeRuns(c) /\ UnderWay(c)
      /\ Mine(c) /\ Len(written) = 5
  BY <1>1, WrittenHasFive DEF CaptureInv, BridgeRuns, UnderWay, BridgeOK
<1>3. /\ DOMAIN output' = DOMAIN output /\ output'.by = output.by
      /\ output'.header = output.header /\ output'.data = output.data
      /\ output'.parts = Append(output.parts, written[Len(output.parts) + 1])
  BY <1>1, <1>2 DEF Fields
<1>4. /\ output.parts \in Seq(Part) /\ Len(output.parts) <= 5
      /\ \A i \in DOMAIN output.parts : output.parts[i] = written[i]
  BY <1>2 DEF Mine
<1> HIDE DEF written
<1>5. Len(output.parts) + 1 \in 1 .. 5 /\ written[Len(output.parts) + 1] \in Part
  BY <1>1, <1>2, <1>4
<1>6. /\ output'.parts \in Seq(Part) /\ Len(output'.parts) = Len(output.parts) + 1
      /\ \A i \in DOMAIN output'.parts : output'.parts[i] = written[i]
  <2> HIDE DEF Part
  <2> QED
    BY <1>3, <1>4, <1>5
<1>7. Fields'
  BY <1>1, <1>2, <1>3 DEF Fields
<1>8. FilesOK'
  BY <1>1, <1>2, <1>3, <1>5, <1>6 DEF FilesOK
<1>9. ProcessOK(c)'
  BY <1>1, <1>2 DEF ProcessOK
<1>10. Mine(c)'
  BY <1>1, <1>2, <1>3, <1>5, <1>6 DEF Mine, written
<1>11. BridgeOK(c)'
  BY <1>1, <1>2, <1>10 DEF BridgeOK, BridgeRuns
<1>12. FrameOK(c)'
  BY <1>1, <1>2 DEF FrameOK
<1> QED
  BY <1>1, <1>2, <1>7, <1>8, <1>9, <1>11, <1>12, OneActs

LEMMA FinishStep ==
  ASSUME CaptureInv, NEW c \in Captures, FinishFrame(c)
  PROVE  CaptureInv'
<1> DEFINE written == Written(capture[c].record)
           Part == {written[i] : i \in 1 .. 5}
<1>1. /\ UNCHANGED <<model, revision, changes, build, capture>>
      /\ bridge[c].pc = "writing" /\ Len(output.parts) = Len(written) /\ Exit(c, 0)
      /\ output' = output \/ output' = [output EXCEPT !.parts = Front(@)]
  BY DEF FinishFrame
<1>2. /\ Fields /\ FilesOK /\ ProcessOK(c) /\ BridgeOK(c) /\ FrameOK(c) /\ BridgeRuns(c) /\ UnderWay(c)
      /\ Mine(c) /\ Len(written) = 5
  BY <1>1, WrittenHasFive DEF CaptureInv, BridgeRuns, UnderWay, BridgeOK
<1>3. /\ DOMAIN bridge' = Captures /\ BridgeFields'
      /\ \A d \in Captures \ {c} : bridge'[d] = bridge[d]
      /\ bridge'[c].pc = "exited" /\ bridge'[c].loaded = bridge[c].loaded /\ bridge'[c].code = 0
  BY <1>1, <1>2, BridgeExits
<1>4. /\ DOMAIN output' = DOMAIN output /\ output'.by = output.by
      /\ output'.header = output.header /\ output'.data = output.data
  BY <1>1, <1>2 DEF Fields
<1>5. /\ output.parts \in Seq(Part) /\ Len(output.parts) = 5
      /\ \A i \in DOMAIN output.parts : output.parts[i] = written[i]
  BY <1>1, <1>2 DEF Mine
<1> HIDE DEF written
<1>6. /\ output'.parts \in Seq(Part) /\ Len(output'.parts) \in 0 .. 5
      /\ \A i \in DOMAIN output'.parts : output'.parts[i] = written[i]
  <2> HIDE DEF Part
  <2>1. CASE output' = output
    BY <1>5, <2>1
  <2>2. CASE output' = [output EXCEPT !.parts = Front(@)]
    <3> DEFINE p == output.parts
               r == SubSeq(p, 1, 4)
    <3>1. output'.parts = r
      BY <1>2, <1>5, <2>2 DEF Fields, Front
    <3>2. r \in Seq(Part) /\ Len(r) = 4 /\ \A i \in 1 .. 4 : r[i] = p[i]
      BY <1>5
    <3>3. \A i \in 1 .. 4 : i \in DOMAIN p
      BY <1>5
    <3> HIDE DEF r, p
    <3>4. \A i \in 1 .. 4 : r[i] = written[i]
      BY <1>5, <3>2, <3>3 DEF p
    <3> QED
      BY <3>1, <3>2, <3>4
  <2> QED
    BY <1>1, <2>1, <2>2
<1>7. Fields'
  BY <1>1, <1>2, <1>3, <1>4 DEF Fields, BridgeFields
<1>8. FilesOK'
  BY <1>1, <1>2, <1>4, <1>6 DEF FilesOK
<1>9. ProcessOK(c)'
  BY <1>1, <1>2, <1>3 DEF ProcessOK, BridgePcs
<1>10. Mine(c)'
  <2>1. output'.by = c /\ output'.data.record = capture[c].record /\ Named(capture[c].record)
        /\ output'.header = Header(capture[c].record, capture[c].sha, capture[c].revision, build)
    BY <1>2, <1>4 DEF Mine
  <2>2. Len(output'.parts) <= 5
    BY <1>6
  <2> QED
    BY <1>1, <1>6, <2>1, <2>2 DEF Mine, written
<1>11. BridgeOK(c)'
  BY <1>3, <1>10 DEF BridgeOK, BridgeRuns
<1>12. FrameOK(c)'
  BY <1>1, <1>2 DEF FrameOK
<1> QED
  BY <1>1, <1>2, <1>3, <1>7, <1>8, <1>9, <1>11, <1>12, OneActs

(* What a capture relies on was pinned when it was constructed: the file   *)
(* and the checkout may change underneath it.                              *)
LEMMA ReplaceUnderneathStep ==
  ASSUME CaptureInv, ReplaceUnderneath
  PROVE  CaptureInv'
<1>1. /\ UNCHANGED <<build, capture, bridge, output>>
      /\ changes < MaxChanges /\ changes' = changes + 1
      /\ model' \in Models \cup {model} /\ revision' \in Revisions \cup {revision}
  BY DEF ReplaceUnderneath
<1>2. FilesOK'
  BY <1>1, CaptureAssumption DEF CaptureInv, FilesOK
<1>3. Fields' /\ OneAtATime'
  BY <1>1 DEF CaptureInv, Fields, OneAtATime, UnderWay, BridgeRuns
<1>4. ASSUME NEW c \in Captures PROVE ProcessOK(c)' /\ BridgeOK(c)' /\ FrameOK(c)'
  <2>1. ProcessOK(c) /\ BridgeOK(c) /\ FrameOK(c)
    BY DEF CaptureInv
  <2>2. ProcessOK(c)'
    BY <1>1, <2>1 DEF ProcessOK
  <2>3. BridgeOK(c)'
    BY <1>1, <2>1 DEF BridgeOK, BridgeRuns, WroteAll, Mine
  <2>4. FrameOK(c)'
    BY <1>1, <2>1 DEF FrameOK
  <2> QED
    BY <2>2, <2>3, <2>4
<1> QED
  BY <1>2, <1>3, <1>4 DEF CaptureInv

LEMMA CaptureInvStep == CaptureInv /\ [CaptureNext]_captureVars => CaptureInv'
<1> SUFFICES ASSUME CaptureInv, [CaptureNext]_captureVars PROVE CaptureInv'
  OBVIOUS
<1>1. CASE ReplaceUnderneath
  BY <1>1, ReplaceUnderneathStep
<1>2. ASSUME NEW c \in Captures,
             \/ Construct(c) \/ LaunchBridge(c) \/ CollectFrame(c) \/ ReportCapture(c) \/ KillCapture(c)
             \/ LoadModel(c) \/ Decode(c) \/ OpenOutput(c) \/ WritePart(c) \/ FinishFrame(c) \/ BridgeDies(c)
      PROVE  CaptureInv'
  <2>1. CASE Construct(c)
    BY <2>1, ConstructStep
  <2>2. CASE LaunchBridge(c)
    BY <2>2, LaunchStep
  <2>3. CASE CollectFrame(c)
    BY <2>3, CollectStep
  <2>4. CASE ReportCapture(c) \/ KillCapture(c)
    <3>1. /\ capture[c].pc # "idle" /\ UNCHANGED <<model, revision, changes, build, bridge, output>>
          /\ \E s \in {"reported", "raised", "killed"} : Become(c, s)
      BY <2>4 DEF ReportCapture, KillCapture
    <3> QED
      BY <3>1, ProviderEnds
  <2>5. CASE LoadModel(c)
    BY <2>5, LoadStep
  <2>6. CASE Decode(c) \/ BridgeDies(c)
    BY <2>6, DecodeStep
  <2>7. CASE OpenOutput(c)
    BY <2>7, OpenStep
  <2>8. CASE WritePart(c)
    BY <2>8, WriteStep
  <2>9. CASE FinishFrame(c)
    BY <2>9, FinishStep
  <2> QED
    BY <1>2, <2>1, <2>2, <2>3, <2>4, <2>5, <2>6, <2>7, <2>8, <2>9
<1>3. CASE UNCHANGED captureVars
  <2> USE <1>3 DEF captureVars
  <2>1. Fields' /\ FilesOK'
    BY DEF CaptureInv, Fields, FilesOK
  <2>2. OneAtATime'
    <3>1. \A c \in Captures : UnderWay(c)' = UnderWay(c)
      BY DEF UnderWay, BridgeRuns
    <3> QED
      BY <3>1 DEF CaptureInv, OneAtATime
  <2>3. ASSUME NEW c \in Captures PROVE ProcessOK(c)' /\ BridgeOK(c)' /\ FrameOK(c)'
    <3>1. ProcessOK(c) /\ BridgeOK(c) /\ FrameOK(c)
      BY DEF CaptureInv
    <3>2. BridgeOK(c)'
      BY <3>1 DEF BridgeOK, BridgeRuns, WroteAll, Mine
    <3> QED
      BY <3>1, <3>2 DEF ProcessOK, FrameOK
  <2> QED
    BY <2>1, <2>2, <2>3 DEF CaptureInv
<1> QED
  BY <1>1, <1>2, <1>3 DEF CaptureNext

LEMMA CaptureInvariance == CaptureSpec => []CaptureInv
<1> QED
  BY InitialCapture, CaptureInvStep, PTL DEF CaptureSpec
---------------------------------------------------------------------------
(* The frame of a capture that ended well was computed by its own bridge   *)
(* from its own record, to the last part, for any number of captures of    *)
(* the same --output, with kills and failures at every step.               *)
THEOREM FramesAreOwn == CaptureSpec => []FrameIsMine
<1>1. CaptureInv => FrameIsMine
  BY DEF CaptureInv, FrameOK, FrameIsMine
<1> QED
  BY <1>1, CaptureInvariance, PTL

(* Writer and reader agree on the format: read_activation_frame and        *)
(* validate_frame accept whatever a bridge of the right build wrote to the *)
(* end, for records of any number of questions, options and tokens.        *)
THEOREM WriterAndReaderAgree == CaptureSpec => []WholeFrameAccepted
<1>1. CaptureInv => WholeFrameAccepted
  <2> SUFFICES ASSUME CaptureInv, NEW c \in Captures,
                      capture[c].pc = "waiting", bridge[c].pc = "exited", bridge[c].code = 0,
                      Len(output.parts) = Len(Written(capture[c].record)), build = PromptContract
               PROVE  Accepted(output, c)
    BY DEF WholeFrameAccepted
  <2> DEFINE record == capture[c].record
  <2>1. Mine(c) /\ record \in Records
    BY DEF CaptureInv, BridgeOK, WroteAll, ProcessOK
  <2>2. /\ output.header = Header(record, capture[c].sha, capture[c].revision, PromptContract)
        /\ Named(record)
    BY <2>1 DEF Mine
  <2>3. output.parts = Written(record)
    <3> DEFINE w == Written(record)
    <3>1. w \in Seq({w[i] : i \in 1 .. 5}) /\ Len(w) = 5
      BY WrittenHasFive
    <3>2. /\ output.parts \in Seq({w[i] : i \in 1 .. 5}) /\ Len(output.parts) = Len(w)
          /\ \A i \in DOMAIN output.parts : output.parts[i] = w[i]
      BY <2>1 DEF Mine
    <3> HIDE DEF w
    <3> QED
      BY <3>1, <3>2 DEF w
  <2> QED
    BY <2>1, <2>2, <2>3, WholeIsAccepted
<1> QED
  BY <1>1, CaptureInvariance, PTL

(* Processes, files and counters keep to their values.                     *)
THEOREM CaptureTypes == CaptureSpec => []CaptureTypeOK
<1>1. CaptureInv => CaptureTypeOK
  <2> SUFFICES ASSUME CaptureInv PROVE CaptureTypeOK
    OBVIOUS
  <2>1. ASSUME NEW c \in Captures
        PROVE  /\ capture[c].pc \in CapturePcs /\ bridge[c].pc \in BridgePcs
               /\ capture[c].record \in Records \cup {Nothing} /\ capture[c].sha \in Models \cup {Nothing}
               /\ capture[c].revision \in Revisions \cup {Nothing}
               /\ bridge[c].loaded \in Models \cup {Nothing} /\ bridge[c].code \in {0, 1}
    BY DEF CaptureInv, ProcessOK, NoCapture
  <2> QED
    BY <2>1 DEF CaptureInv, FilesOK, CaptureTypeOK, CapturePcs, BridgePcs
<1> QED
  BY <1>1, CaptureInvariance, PTL
=============================================================================
