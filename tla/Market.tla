------------------------------- MODULE Market -------------------------------
(***************************************************************************)
(* market_decision.py with the policies of its three asset classes: what   *)
(* quotes of one instrument, its price history and the reachability of the *)
(* venues allow to propose.  Prices are whole numbers; a confidence, a     *)
(* reason or a note decides nothing and is left out.                       *)
(***************************************************************************)
EXTENDS Rules, MarketCalendar

CONSTANTS MarketCalls,     \* the function called, with a document and the time
          VenueRank        \* the order of the venue names; an unnamed one is first

IsQuote(q) ==
  {q.last, q.bid, q.ask, q.nav} \subseteq Int \cup {None} /\ q.source \in DOMAIN VenueRank

(* A document has a class, observations, a history and liveness; the        *)
(* caller of decide_market_action has one quote or none.                   *)
IsCall(c) ==
  LET d == c.document
  IN  /\ {"class", "observations", "history", "liveness"} \subseteq DOMAIN d
      /\ d.observations \in Seq({d.observations[i] : i \in DOMAIN d.observations})
      /\ d.history \in Seq({d.history[i] : i \in DOMAIN d.history})
      /\ \A i \in DOMAIN d.observations : IsQuote(d.observations[i])
      /\ c.by = "decide_market_action" => Len(d.observations) <= 1

ASSUME CallsAssumption == \A c \in MarketCalls : IsCall(c)
ASSUME VenuesAssumption == None \notin Int /\ \A v \in DOMAIN VenueRank : VenueRank[v] \in Int

VARIABLES call, proposed
marketVars == <<call, proposed>>

(* Price ratios are in thousandths, windows in units of five minutes. *)
Policies ==
  [ bitcoin |-> [liveness |-> TRUE,  history |-> 3 * DayLength, disagreement |-> 5,  propose |-> 80],
    fund    |-> [liveness |-> FALSE, history |-> 3 * DayLength, disagreement |-> 1,  propose |-> 30],
    equity  |-> [liveness |-> TRUE,  history |-> 2 * DayLength, disagreement |-> 20, propose |-> 150] ]

Session(class, t) == IF class = "bitcoin" THEN "regular" ELSE SessionAt(t)

FreshnessWindow(class, t) ==
  CASE class = "bitcoin" -> 0
    [] class = "fund"    -> FundWindow(t)
    [] class = "equity"  -> IF SessionAt(t) = "regular" THEN 0 ELSE 3 * DayLength

(* A quote: source, last, bid, ask, nav, at. *)
Prices(q) == {field \in {"last", "bid", "ask", "nav"} : q[field] # None}

TwoSided(q) == q.bid # None /\ q.ask # None

Crossed(q) == IF q.bid = None /\ q.ask = None THEN Prices(q) = {} ELSE TwoSided(q) /\ q.bid > q.ask

Basis(class, q, session) ==
  IF class = "fund" /\ session # "regular" /\ q.nav # None THEN "nav"
  ELSE IF q.last # None THEN "last" ELSE None

(* gate_venue_liveness: of several readings of a venue the newest counts,  *)
(* and of several newest ones the first.                                   *)
VenueLive(venue, readings, t) ==
  LET mine   == SelectSeq(readings, LAMBDA r : r.venue = venue)
      newest == mine[FirstIn(mine, LAMBDA r : \A i \in DOMAIN mine : mine[i].at <= r.at)]
  IN venue # None /\ mine # <<>> /\ newest.at = t /\ newest.reachable

LiveFor(class, q, readings, t) == Policies[class].liveness => VenueLive(q.source, readings, t)

UsableQuote(q, d, t) ==
  /\ Prices(q) # {} /\ ~Crossed(q)
  /\ t - q.at \in 0 .. FreshnessWindow(d.class, t)
  /\ LiveFor(d.class, q, d.liveness, t)

(* mutant: what is history needs no live venue *)
BelievableAnyVenue(q, d, t) ==
  Prices(q) # {} /\ ~Crossed(q) /\ t - q.at \in 0 .. Policies[d.class].history

(* gate_history *)
Believable(q, d, t) ==
  /\ Prices(q) # {} /\ ~Crossed(q)
  /\ t - q.at \in 0 .. Policies[d.class].history
  /\ LiveFor(d.class, q, d.liveness, t)

UsableQuotes(d, t) == {i \in DOMAIN d.observations : UsableQuote(d.observations[i], d, t)}
BelievablePrints(d, t) == {i \in DOMAIN d.history : Believable(d.history[i], d, t)}
---------------------------------------------------------------------------
(* The quote nearest to the middle of the range, then by venue; values are *)
(* doubled so that a middle is a whole number.                             *)
Nearest(quotes, Value(_), low, high) ==
  LET off(q) == IF 2 * Value(q) >= low + high THEN 2 * Value(q) - low - high
                                              ELSE low + high - 2 * Value(q)
      before(p, q) == \/ off(p) < off(q)
                      \/ off(p) = off(q) /\ VenueRank[p.source] < VenueRank[q.source]
  IN quotes[FirstIn(quotes, LAMBDA q : \A i \in DOMAIN quotes : ~before(quotes[i], q))]

Midpoint(q) == IF q.last # None THEN 2 * q.last ELSE q.bid + q.ask
HasMidpoint(q) == q.last # None \/ TwoSided(q)
Priced(quotes) == Where(quotes, {i \in DOMAIN quotes : HasMidpoint(quotes[i])})

Disagree(class, low, high) == (high - low) * 1000 > Policies[class].disagreement * low

Among(quotes, Value(_)) == {Value(quotes[i]) : i \in DOMAIN quotes}

ReconcileBitcoin(quotes) ==
  LET priced == Priced(quotes)
      mids   == Among(priced, Midpoint)
  IN IF Cardinality(Among(quotes, LAMBDA q : q.source)) < 2 THEN quotes[1]
     ELSE IF Len(priced) < 2 \/ Disagree("bitcoin", Sets!Min(mids), Sets!Max(mids)) THEN None
     ELSE Nearest(priced, Midpoint, Sets!Min(mids), Sets!Max(mids))

Traded(quotes) == Where(quotes, {i \in DOMAIN quotes : quotes[i].last # None})
Last2(q) == 2 * q.last

ReconcileFund(quotes) ==
  LET priced == Traded(quotes)
      lasts  == Among(priced, Last2)
  IN IF Len(priced) < 2 THEN quotes[1]
     ELSE IF Disagree("fund", Sets!Min(lasts), Sets!Max(lasts)) THEN None
     ELSE Nearest(priced, Last2, Sets!Min(lasts), Sets!Max(lasts))

ReconcileEquity(quotes) ==
  LET priced == Traded(quotes)
      lasts  == Among(priced, Last2)
  IN IF Len(quotes) = 1 THEN quotes[1]
     ELSE IF Len(priced) < 2 \/ Disagree("equity", Sets!Min(lasts), Sets!Max(lasts)) THEN None
     ELSE quotes[1]

Reconcile(class, quotes) ==
  CASE class = "bitcoin" -> ReconcileBitcoin(quotes)
    [] class = "fund"    -> ReconcileFund(quotes)
    [] class = "equity"  -> ReconcileEquity(quotes)

(* interpret: without a history one holds, or not even that. *)
Dislocated(q) == /\ q.nav # None /\ q.last # None
                 /\ \/ (q.last - q.nav) * 1000 > 50 * q.nav
                    \/ (q.nav - q.last) * 1000 > 50 * q.nav

ThinBook(q) == TwoSided(q) /\ (q.ask - q.bid) * 1000 > 50 * q.ask

Interpret(class, q, session) ==
  IF \/ class \in {"bitcoin", "fund"} /\ Basis(class, q, session) = None
     \/ class = "bitcoin" /\ ThinBook(q)
     \/ class = "fund" /\ Dislocated(q)
  THEN "abstain" ELSE "propose_hold"
---------------------------------------------------------------------------
(* sustained_move: one price per time, the first print of that time that   *)
(* was listed; without a trade the first price by the name of its field.   *)
PrintPrice(q) ==
  IF q.last # None THEN q.last
  ELSE IF q.ask # None THEN q.ask
  ELSE IF q.bid # None THEN q.bid ELSE q.nav

Series(prints) ==
  [t \in {prints[i].at : i \in DOMAIN prints} |->
     PrintPrice(prints[FirstIn(prints, LAMBDA q : q.at = t)])]

NoMove == [venues |-> {}]

Sustained(prints) ==
  LET series  == Series(prints)
      first   == series[Sets!Min(DOMAIN series)]
      last    == series[Sets!Max(DOMAIN series)]
      peak    == Sets!Max({series[t] : t \in DOMAIN series})
      trough  == Sets!Min({series[t] : t \in DOMAIN series})
      rose    == last > first \/ (last = first /\ peak - first >= first - trough)
      against == IF last > first THEN first - trough ELSE peak - first
      net     == IF last > first THEN last - first ELSE first - last
      far     == IF peak - first >= first - trough THEN peak - first ELSE first - trough
      reverted ==
        IF last = first THEN far * 1000 >= 20 * first
        ELSE \/ against * 1000 >= 20 * first
             \/ IF last > first THEN (peak - last) * 1000 >= 20 * peak
                                ELSE (last - trough) * 1000 >= 20 * trough
  IN IF \/ Cardinality(DOMAIN series) < 3
        \/ Sets!Max(DOMAIN series) = Sets!Min(DOMAIN series)
        \/ last = first /\ ~reverted
     THEN NoMove
     ELSE [up |-> rose, reversal |-> reverted, base |-> first,
           change |-> IF last = first THEN far ELSE net,
           venues |-> {prints[i].source : i \in DOMAIN prints} \ {None}]

(* The venues that attest a move are those with a usable quote now. *)
Attested(move, quotes) == move.venues \cap {quotes[i].source : i \in DOMAIN quotes}

(* Half the spread over the middle is (ask - bid) / (ask + bid). *)
BeyondSpread(move, q) ==
  TwoSided(q) /\ move.change * (q.ask + q.bid) >= 2 * (q.ask - q.bid) * move.base

(* consider_move *)
Considered(class, move, witnesses, q) ==
  /\ ~move.reversal
  /\ move.change * 1000 >= Policies[class].propose * move.base
  /\ class # "fund" => Cardinality(witnesses) >= 2
  /\ class = "equity" => BeyondSpread(move, q)

Direction(move) == IF move.up THEN "propose_increase" ELSE "propose_reduce"
---------------------------------------------------------------------------
Advisory(action, quote, move) == [action |-> action, quote |-> quote, move |-> move]
Abstain == Advisory("abstain", None, NoMove)

(* decide_instrument *)
InstrumentDecision(d, t) ==
  LET session == Session(d.class, t)
      usable  == Where(d.observations, UsableQuotes(d, t))
      chosen  == Reconcile(d.class, usable)
      reading == Interpret(d.class, chosen, session)
      move    == Sustained(Where(d.history, BelievablePrints(d, t)))
      witnesses == Attested(move, usable)
      nothing == \/ d.class = None \/ usable = <<>> \/ chosen = None
                 \/ Basis(d.class, chosen, session) = None
  IN IF nothing THEN Abstain
     ELSE IF witnesses = {} THEN Advisory(reading, chosen, NoMove)
     ELSE Advisory(IF Considered(d.class, move, witnesses, chosen) THEN Direction(move) ELSE reading,
                   chosen, move)

(* decide_market_action, for a caller with one quote or none: what names   *)
(* no price to judge by is interpreted all the same.                       *)
QuoteDecision(d, t) ==
  LET quote == Head(d.observations)
  IN IF d.class = None \/ d.observations = <<>> \/ ~UsableQuote(quote, d, t) THEN Abstain
     ELSE Advisory(Interpret(d.class, quote, Session(d.class, t)), quote, NoMove)

Decision(by, d, t) ==
  IF by = "decide_market_action" THEN QuoteDecision(d, t) ELSE InstrumentDecision(d, t)

MarketInit == call \in MarketCalls /\ proposed = None

Decide ==
  /\ call # None /\ proposed = None
  /\ call.document.class \in DOMAIN Policies \cup {None}
  /\ proposed' = Decision(call.by, call.document, call.moment)
  /\ UNCHANGED call

(* decide_document refuses a class it does not know. *)
DecideRefused ==
  /\ call # None /\ proposed = None
  /\ call.document.class \notin DOMAIN Policies \cup {None}
  /\ proposed' = Advisory("refused", None, NoMove)
  /\ UNCHANGED call

MarketNext == Decide \/ DecideRefused
MarketSpec == MarketInit /\ [][MarketNext]_marketVars

Decided == proposed # None /\ proposed.action # "refused" /\ call.document.class # None
---------------------------------------------------------------------------
MarketTypeOK ==
  Decided =>
    /\ proposed.action \in {"abstain", "propose_hold", "propose_increase", "propose_reduce"}
    /\ LET quotes == call.document.observations
       IN proposed.quote \in {None} \cup {quotes[i] : i \in DOMAIN quotes}

Heard(quotes, d, t) ==
  Where(quotes, {i \in DOMAIN quotes : VenueLive(quotes[i].source, d.liveness, t)})

(* A venue that cannot be shown to be reachable has no say: where the      *)
(* class asks for reachable venues, the advice is the same without all     *)
(* they quote now and all they quoted before.                              *)
DeadVenuesAreSilent ==
  Decided /\ Policies[call.document.class].liveness =>
    LET without == [call.document EXCEPT !.observations = Heard(@, call.document, call.moment),
                                         !.history      = Heard(@, call.document, call.moment)]
    IN Decision(call.by, without, call.moment) = proposed

(* Venue v is reachable, quotes now and told of the past. *)
Corroborates(v, d, t) ==
  /\ VenueLive(v, d.liveness, t)
  /\ \E i \in DOMAIN d.observations :
       LET q == d.observations[i]
       IN q.source = v /\ ~Crossed(q) /\ t - q.at \in 0 .. FreshnessWindow(d.class, t)
  /\ \E j \in DOMAIN d.history :
       LET p == d.history[j]
       IN p.source = v /\ ~Crossed(p) /\ t - p.at \in 0 .. Policies[d.class].history

(* "A single feed's own story cannot propose on its own": to propose a      *)
(* trade of a bitcoin or a single name takes two named venues that both     *)
(* answer now, quote now and told of the move.                              *)
ProposalsAreCorroborated ==
  LET d == call.document
      sources == {d.observations[i].source : i \in DOMAIN d.observations}
  IN Decided /\ Policies[d.class].liveness
       /\ proposed.action \in {"propose_increase", "propose_reduce"} =>
     \E u, v \in sources :
       u # v /\ Corroborates(u, d, call.moment) /\ Corroborates(v, d, call.moment)

(* "A proposal is added to a neutral reading, never used to override a     *)
(* refusal": where the chosen quote alone makes the policy abstain, a move *)
(* in the history does not make it propose.                                *)
NeverRescuesARefusal ==
  Decided /\ proposed.quote # None =>
    LET class == call.document.class
    IN Interpret(class, proposed.quote, Session(class, call.moment)) = "abstain"
         => proposed.action = "abstain"

LastClose(t) ==
  Sets!Max({c \in {CloseOf(d) : d \in {e \in Day(t) - 9 .. Day(t) : IsTradingDay(e)}} : c <= t})

(* "Outside the session the newest possible evidence is the last close, so *)
(* a short window would reject the only quote that exists": while the      *)
(* market is closed, a fund's quote from the last close of a trading day   *)
(* is usable.                                                              *)
LastCloseIsFresh ==
  Decided /\ call.document.class = "fund" /\ SessionAt(call.moment) = "closed" =>
    LET quotes == call.document.observations
    IN \A i \in DOMAIN quotes :
         quotes[i].at = LastClose(call.moment) /\ Prices(quotes[i]) # {} /\ ~Crossed(quotes[i])
           => UsableQuote(quotes[i], call.document, call.moment)
=============================================================================
