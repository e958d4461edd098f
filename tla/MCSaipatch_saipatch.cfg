SPECIFICATION Spec
CONSTANTS
  Session = {"a", "b"}
  Url = {"u1", "u2"}
  Proc = {"p1", "p2"}
  Knows <- MCKnows
  Up = "p1"
  MaxGen = 2
  MaxReq = 2
  MaxRev = 2
  MaxWorld = 1
  MaxPosted = 1
  MaxSteps = 5
  Quiet = {"b"}
  Recent = 2
  MaxRows = 4
  MaxSelect = 2
  MaxLosses = 1
  MaxInbox = 2
  MaxMoves = 6
  Chat = {"s"}
  Windows = {"w"}
  Cli = {"c"}
  Texts = {"t"}
  MaxPrompts = 2
  MaxCalls = 2
INVARIANT ReservationIsExact
INVARIANT Converges
INVARIANT AnswerHolds
CHECK_DEADLOCK FALSE
