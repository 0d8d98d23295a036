SPECIFICATION Spec
CONSTANTS
  MaxU64 <- MCMaxU64
  MaxI64 <- MCMaxI64
  Frac <- MCFrac
  UnitBytes <- MCUnitBytes
  UnitSeconds <- MCUnitSeconds
  ZoneShift <- MCZoneShift
  Questions <- MCQuestions
  Candidates <- MCCandidates
  Values <- MCValues
  Times <- MCTimes
  FlagNames <- MCFlagNames
  MaxUsize <- MCMaxUsize
  Value <- MCValue
  ZeroPadsStrings = FALSE
  Alphabet <- MCAlphabet
  NamedBytes <- MCNamedBytes
  MaxCount <- MCMaxCount
INVARIANTS
  GlobsMatchWhatTheyDenote
  NumericTestsAsWritten
  ModesAndFlagsAsWritten
  LiteralTimesAsWritten
  FormatsPrintTheirParts
  RegexesKeepTheirMeaning
CHECK_DEADLOCK FALSE
