SPECIFICATION FairSpec
CONSTANTS
  Silence = Silence
  NBuckets = 2
  BucketSize = 2
  DeviceSize = 4
  StartCount = 3
  Reporting = {TRUE, FALSE}
  Tracing = {TRUE, FALSE}
  MaxAdd = 3
  MaxTotal = 5
INVARIANTS
  TypeOK
  QueueKept
PROPERTIES
  InOrder
  FlushPlaysOut
  StartsFilled
  ClockForward
  CallsReturn
