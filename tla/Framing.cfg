\* Every stream of 7 bytes, cut in every way into reads of 1..3 bytes.
CONSTANTS
  HDR = 2
  MAX_FRAME_SIZE = 2
  RECV_BUF = 3
  Lens = {0, 2, 3}
  StreamLen = 7
SPECIFICATION Spec
INVARIANTS TypeOK BufferInStep NoStuckFrame DroppedForCause
PROPERTY RefinesFrameStream
