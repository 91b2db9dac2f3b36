\* The connection is broken, or the peer sends no more: read_data waits.
CHECK_DEADLOCK FALSE
CONSTANTS
  Lengths = {3, 6}
  MaxPdus = 2
  Streams <- MCStreams
  FirstSize = 2
  MaxBufferSize = 3
  ReadWriteSize = 4
  HeaderLen = 2
  BreakLen = 7
  MaxReads = 1
  Mixed = 3
  MaxPosted = 7
  Exchanges <- MCExchanges
  SendSizes = {0, 1, 5}
  SendBuffer = 4
  Radix = 4
  LenWidth = 4
  Messages <- MCMessages
SPECIFICATION StreamSpec
INVARIANTS
  ParseErrorTrue
