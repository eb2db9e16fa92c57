SPECIFICATION FairSpec
CONSTANTS
  Conn = {c1}
  Run = {r1, r2}
  Tick = Tick
  Admin = Admin
  Sender = {r1, r2, Tick, Admin}
  Nobody = Nobody
  NoConn = NoConn
  NoRun = NoRun
  PipeCap = 1
  Programs <- MCPrograms
  MaxEvents = 2
  MaxWork = 2
  MaxLogins = 1
  MaxFaults = 1
  MaxTotal = 2
INVARIANTS BannerExplained FeedTellsTheRun
PROPERTIES StaysConnected BroadcastsEnd
CHECK_DEADLOCK FALSE
