SPECIFICATION FeedSpec
CONSTANTS
  Type = {"file_write", "network_connect"}
  TypeOf <- MCTypeOf
  MAX_EVENTS = 7
  NearRows = 1
  MaxMessages = 8
  MaxMoves = 3
INVARIANTS FollowsTheTail TellsOfNew
CHECK_DEADLOCK FALSE
