SPECIFICATION Spec
CONSTANTS
  Requests = {r1, r2, r3}
  Cancels = {c1}
  Rooms = {1, 2, 3}
  RoomType <- MCRoomType
  Capacity <- MCCapacity
  Stays <- MCStays
  NoStay = NoStay
  NoRoom = NoRoom
  NoRequest = NoRequest
INVARIANTS
  ClashOnlyWhenRaced
  EventsFollowTable
\* Every request is answered in the end, and then nothing is left to do.
CHECK_DEADLOCK FALSE
