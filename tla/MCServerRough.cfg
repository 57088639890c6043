SPECIFICATION FairSpec
CONSTANTS
  c1 = c1
  c2 = c2
  k = k
  kLong = kLong
  v = v
  vLong = vLong
  junk = junk
  Main = main
  Client <- MCClient
  Key <- MCKey
  Value <- MCValue
  LongKey = {kLong}
  LongValue = {vLong}
  Length <- MCLength
  Junk = junk
  NoValue = noValue
  NoThread = noThread
  NoRequest = noRequest
  NoAnswer = noAnswer
  MaxRequests = 1
  MaxSignals = 2
  MayVanish = TRUE
CHECK_DEADLOCK FALSE
INVARIANT MutualExclusion
PROPERTY StopTerminates
