SPECIFICATION Spec
CONSTANTS
  a = a  b = b  own = own  frame = frame
  Others = {a}
  Own = own  Frame = frame
  Places <- MCPlaces
  Border = 0
  MAXP = 3
  MaxChanges = 2
  MaxInFlight = 1
  MaxStarts = 1
CHECK_DEADLOCK FALSE
PROPERTY UntilEof
