CONSTANTS
  t1 = t1
  t2 = t2
  s1 = s1
  s2 = s2
  s3 = s3

  Tasks = {t1, t2}
  Tcpip = Tcpip
  Socks = {s1, s2, s3}
  ReadSet <- MCReadSet
  WriteSet <- MCWriteSet
  Lasting = {s2, s3}
  MaxMsgs = 2
SPECIFICATION FairSpec
INVARIANTS TypeOK EventsMatchMbox NoLostWakeup WalkOnList WaitingCounted SelectFindsReady
PROPERTY SelectReturns
