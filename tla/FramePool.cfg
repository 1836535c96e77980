SPECIFICATION FairSpec
CONSTANTS
  motion = motion
  ws1 = ws1
  ws2 = ws2
  http = http
  Slots = {s1, s2}
  Watchers = {motion, ws1}
  Senders = {ws1}
  Snapshotters = {http}
  Stride <- MCStride
  MaxSubs = 1
  MaxSeq = 4
  MaxFails = 1
  None = None
INVARIANTS TypeOK RefcountExact ExclusiveWrite NoLostWakeup
PROPERTIES ImplementsFeed StarvationEnds NewFrameArrives
