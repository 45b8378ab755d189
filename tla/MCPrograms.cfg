SPECIFICATION Spec
CONSTANTS
  d1 = d1
  d2 = d2
  d3 = d3
  NodesCount = 2
  BalancerSize = 2
  DeviationMax = 1
  MinLatency = 1
  MaxLatency = 2
  RttPeriod = 4
  TimePeriod = 7
  DriftPeriod <- Drifts
  StartTime = 9
  Deadline = 17
  MessageCount = 3
  ErrorTime = 2
  ArraySize = 2
  Width = 160
  Height = 80
  Percents = {0, 50, 100}
  MacDigits = {48, 57, 65, 70}
  Measurements = 2
  FontSizes = {8, 12, 16, 20, 24}
  TextCodes = {32, 77, 95}
  MaxLetters = 2
  MaxTexts = 2
  TableLength = 4
  Master = d1
  Receivers <- Others
  Pause = 1
  MaxFlight = 2
  MaxEdges = 2
  LastInstant = 8
  Rounds = 2
  MaxReceived = 2
  TickLength = 2
  ShortPush = 2
  LongPush = 10
  ResetPolls = 3
  MinGap = 5
  MaxGap = 3
  MaxPushes = 3
INVARIANTS
  OnTime
  StaysNear
  OwnEcho
  ErrorsAreReal
  OnlyMacStays
  TextStaysWhole
  CheckTellsCounts
  PrintsFlight
  AllDark
  LoggedAsPushed
CHECK_DEADLOCK FALSE
