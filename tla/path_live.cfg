CONSTANTS
  r1 = r1  r2 = r2  d1 = d1  p1 = p1  p2 = p2
  s1 = s1  s2 = s2  s3 = s3  s4 = s4  a = a  b = b
  Readers = {r1, r2}
  Describers = {d1}
  Streams = {s1, s2}
  Settings = {a, b}
  Nobody = Nobody
  HandlerSrc = HandlerSrc
  RedirectSrc = RedirectSrc
  NoStream = NoStream
  NoRecord = NoRecord
  NoRecorder = NoRecorder
  Publishers = {p1}
  Confs <- LiveConfs
  InitCanFail = TRUE

SPECIFICATION FairSpec
INVARIANTS
  HeldExactlyOnce
  TimersFollowDemand
  ReaderLimit
PROPERTIES
  StaticHoldAnswered
  WhatIsOverEnds
