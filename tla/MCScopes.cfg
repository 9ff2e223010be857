SPECIFICATION Spec
CONSTANTS
  Names = {x, y}
  NoName = NoName
  MaxNodes = 8
INVARIANTS TypeOK NearestIsFound StaysInFunction StoredBefore
