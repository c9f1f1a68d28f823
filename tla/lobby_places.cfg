CONSTANTS
  Clients = {c1, c2}
  Open = open
  Rooms = {r1, r2, r3}
  First = r1
  MaxRequests = 3
  None = None
SYMMETRY AnyAlike
SPECIFICATION Spec
INVARIANTS
  EmptyRoomIsGoing
  OnePlace
  GoneIsNowhere
CHECK_DEADLOCK FALSE
