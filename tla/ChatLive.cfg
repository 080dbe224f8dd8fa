CONSTANTS
  a = a
  b = b
  c = c
  NoPeer = NoPeer
  Peers = {a, b, c}
  Script <- Named
  LabelLen <- Labels
  MAX_CLIENTS = 2
  FD_SETSIZE = 7
  MAX_FILES = 7
  LFD = 3
  HDR = 2
  MAX_FRAME_SIZE = 4
  SNDBUF = 1
  Faults = {"accept"}
  Quits = {a}
  Mute = {}
SPECIFICATION FairSpec
INVARIANTS RecvNeverBlocks LabelIsSenders
PROPERTIES RoundComplete RoundsEnd EveryoneServed
CHECK_DEADLOCK FALSE
