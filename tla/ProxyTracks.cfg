SPECIFICATION FairSpec
CONSTANTS
  a = a  b = b  own = own  frame = frame
  Others = {a, b}
  Own = own  Frame = frame
  Places <- MCPlaces
  Border = 0
  MAXP = 3
  MaxChanges = 2
  MaxInFlight = 1
  MaxStarts = 2
CHECK_DEADLOCK FALSE
INVARIANTS TypeOK PiecesExact
PROPERTIES RecordOutlastsSeed Tracks
