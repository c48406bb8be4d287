\* Both adapters; the tool may fork once.
SPECIFICATION FairSpec
CONSTANTS
  Leader = l
  Descendants = {d1}
  Limit = 1
  MaxSent = 2
  InputSize = 1
  PipeSize = 1
  MaxFaults = 1
CHECK_DEADLOCK FALSE
INVARIANTS CaptureIsWhole NothingIsLeft
PROPERTY Terminates
