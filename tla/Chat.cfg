CONSTANTS
  a = a
  b = b
  c = c
  NoPeer = NoPeer
  Peers = {a, b, c}
  Script <- Talk
  LabelLen <- Labels
  MAX_CLIENTS = 3
  FD_SETSIZE = 7
  MAX_FILES = 7
  LFD = 3
  HDR = 2
  MAX_FRAME_SIZE = 4
  SNDBUF = 1
  Faults = {"select", "recv"}
  Quits = {b}
  Mute = {}
SPECIFICATION Spec
INVARIANTS OneSlotPerSocket NoGaps
PROPERTY RefinesRoom
CHECK_DEADLOCK FALSE
