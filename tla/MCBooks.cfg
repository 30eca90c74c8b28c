SPECIFICATION Spec
CONSTANTS
  NL = "nl"
  CR = "cr"
  Infinite = Infinite
  Event <- MCEvent
  PriceTable <- MCPriceTable
  MinuteSeconds = 2
  WindowMinutes = 1
  RecentMax = 2
  LatencyBins <- MCLatencyBins
  Latencies = {5, 9}
  Times = {1, 2, 4}
  StreamIds = {s1}
  Wires <- MCWires
  Replies <- MCReplies
  RequestModel <- MCRequestModel
  BytesIn = 1
  MaxRecords = 2
INVARIANTS TypeOK TotalsAddUp ChunksDoNotMatter SeriesExact PercentilesRight BooksAgree
PROPERTY BilledForWhatArrived
CHECK_DEADLOCK FALSE
