SPECIFICATION MCSpec
CONSTANTS
  MaxInt = 31
  MinDelay = 5
  InfinityDelay = 12
  MaxShift = 8
  Inputs <- MCInputs
  SummerStart = 1679796000
  SummerEnd = 1698544800
  Horizon = 777600
  MaxValue = 2147483647
  MaxVolume = 1000000
  HexDigits = 3
  PreviewLen = 5
  ErrorLen = 40
  MaxLocal = 2
  UserMacros = {"{$D}", "{$P}"}
  Suffix = "config"
  Parsed <- MCParsed
  Column <- MCColumn
  SmallLetter <- MCSmallLetter
  NumberOf <- MCNumber
  MaxHostname = 4
  MaxDnsname = 4
  MaxPort = 999
INVARIANTS DelaysAreSound ChecksAreDue IntervalsAreRead TextsAreRead TokensAreFound RangesAgree
INVARIANTS StepsReadTexts ContainersAgree MessagesArrive ConfigurationsAreConverted ResultsAreConverted
CHECK_DEADLOCK FALSE
