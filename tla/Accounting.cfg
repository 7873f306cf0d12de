\* Four keys, fills of one bought or two sold contracts at two prices,
\* four steps: averages of averages, partial closes, flips, and a removal
\* from the middle of the book; margins over and under the ceiling.
CONSTANTS
  Keys <- MCKeys
  DeltaOf <- MCDeltaOf
  ThetaOf <- MCThetaOf
  Expired = {"old"}
  Unscanned = {"old", "noon"}
  Multiplier = 2
  Capital = 5
  MarginCeiling = 10
  MarginKill = 16
  DeltaCeiling = 3
  DeltaKill = 5
  ThetaFloor <- MCThetaFloor
  ThetaKill <- MCThetaKill
  MarginEscape = TRUE
  RiskArray <- MCRiskArray
  BasePrice <- MCBasePrice
  ShortOptionMinimum = 1
  Seeds <- MCSeeds
  HedgeContract = "future"
  Prices = {1, 3}
  OptionPrices = {1, 3}
  Effects <- MCEffects
  BrokerMargins = {0, 4, 20}
  MaxSteps = 4
SPECIFICATION Spec
INVARIANTS BookIsSeedPlusFills HedgePnlIsAccountPnl
  DailyPnlOmitsHedgeAndRealised AverageIsBetweenEntries WayBackIsOpen GatedBookStaysInside
CHECK_DEADLOCK FALSE
