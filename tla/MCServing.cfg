SPECIFICATION FairSpec
CONSTANTS
  anthropic = anthropic
  openai = openai
  chat = chat
  stream = stream
  Provider = {anthropic, openai}
  Request = {chat, stream}
  Streaming = {stream}
  Chain <- MCChain
  Threshold = 2
  MaxRetries = 1
  MaxOutages = 2
  MaxFaults = 1
  MaxCancels = 1
  None = None
  MaxPieces = 3
  MaxCalls = 2
  MaxOnWire = 2
CHECK_DEADLOCK FALSE
INVARIANTS
  BreakersSafety
  StreamSafety
PROPERTIES
  MessageOrder
  TrafficReturns
  StreamsClose
