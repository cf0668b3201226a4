\* Two goroutines and two parts, each of which may open a stream, the second one
\* only for an expected transfer; a queue holds one part.
CONSTANTS
  w1 = w1  w2 = w2
  m1 = m1  m2 = m2
  s1 = s1  s2 = s2
  Workers = {w1, w2}
  Streams = {s1, s2}
  Msgs = {m1, m2}
  Openers = {m1, m2}
  Oversized = {m2}
  QSize = 1
  SlotLimit = 1
  NoStream = NoStream  NoWorker = NoWorker  NoMsg = NoMsg
SPECIFICATION FairSpec
INVARIANTS NoLostWakeup SlotsMatchStreams NoProcessingAfterRetire CleanupNotStranded
PROPERTIES HandlersReturn
CHECK_DEADLOCK FALSE
