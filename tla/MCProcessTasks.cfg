SPECIFICATION FairSpec
CONSTANTS
  MaxKilled = 1
  MaxSigint = 5
  Limit = 10
  Late = 1
  Times = 5
  MaxLines = 4
  MaxSignals = 4
  NumLines = 4
  Capacity = 2
  MaxFail = 1
  MaxKill = 1
INVARIANTS CommandConnected CountComplete ReportsTrue SurvivesTwo
PROPERTIES EveryoneEnds EndsUnlessHurried SigtermEnds EchoedAtEof
CHECK_DEADLOCK FALSE
