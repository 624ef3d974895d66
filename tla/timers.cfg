CONSTANTS
  arp_timer = arp_timer
  ip_reass_timer = ip_reass_timer
  app_timer = app_timer
  Tcp = tcp_timer
  App = {app_timer}
  NoHandler = NoHandler
  Cyclic <- MCCyclic
  Interval <- MCInterval
  PoolSize = 4
  MaxMsgs = 1
  Longest = 3
SPECIFICATION FairSpec
INVARIANTS TypeOK CyclicAlive TcpTimerFlag
PROPERTIES EarlyByMessages CyclicFire ImplementsDeadlines
