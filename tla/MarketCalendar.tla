--------------------------- MODULE MarketCalendar ---------------------------
(***************************************************************************)
(* The trading calendar of market_asset_index_fund.py: days, sessions and  *)
(* how old a quote of a fund may be.  A moment is a number of five-minute  *)
(* units since a Monday, 0:00 in New York; the clocks never change.        *)
(***************************************************************************)
EXTENDS Integers
Sets == INSTANCE FiniteSetsExt

CONSTANT FixedClosures     \* the days that are a fixed-date holiday by their date

DayLength == 288
PreMarketOpen == 48
MarketOpen == 114
MarketClose == 192
AfterHoursClose == 240
SessionFreshness == 1

Day(t) == t \div DayLength
Clock(t) == t % DayLength
Weekday(d) == d % 7

(* A holiday on a Saturday closes the Friday before, one on a Sunday the   *)
(* Monday after.                                                           *)
IsFixedClosure(d) ==
  \/ d \in FixedClosures
  \/ Weekday(d) = 4 /\ d + 1 \in FixedClosures
  \/ Weekday(d) = 0 /\ d - 1 \in FixedClosures

IsTradingDay(d) == Weekday(d) < 5 /\ ~IsFixedClosure(d)

SessionAt(t) ==
  IF ~IsTradingDay(Day(t)) \/ Clock(t) < PreMarketOpen \/ Clock(t) >= AfterHoursClose THEN "closed"
  ELSE IF Clock(t) < MarketOpen THEN "pre_market"
  ELSE IF Clock(t) < MarketClose THEN "regular"
  ELSE "after_hours"

CloseOf(d) == d * DayLength + MarketClose

(* Of today and yesterday, whether they are trading days or not. *)
MostRecentSessionEdge(t) ==
  Sets!Max({e \in { d * DayLength + edge : d \in {Day(t) - 1, Day(t)},
                                      edge \in {PreMarketOpen, MarketOpen, MarketClose} } : e <= t})

LastWeekdayClose(t) == CloseOf(Sets!Max({d \in Day(t) - 9 .. Day(t) : IsTradingDay(d)}))

FundWindow(t) ==
  IF SessionAt(t) = "regular" THEN SessionFreshness
  ELSE t + SessionFreshness - (IF IsTradingDay(Day(t)) THEN MostRecentSessionEdge(t)
                                                       ELSE LastWeekdayClose(t))
=============================================================================
