SPECIFICATION Spec
CONSTANTS
  BuffLength = 7
  MaxChannel = 2
  SendUnit = 3
  WaitRuns = 1
  Lengths = {2}
  PreCounts = {1}
  PostCounts = {1}
  Rates = {2}
  ClearsEarly = FALSE
  Numbers = 4
INVARIANTS TypeOK RingWhole WindowIsRecording TriggerPlace ReceivedInOrder
PROPERTIES RecordingEnds FirstPartArrives
