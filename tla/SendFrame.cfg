\* Four frames through a socket buffer of five bytes.
CONSTANTS
  Frames <- Calls
  HDR = 4
  SNDBUF = 5
SPECIFICATION Spec
INVARIANT BytesRight
PROPERTY RefinesFrameLine
CHECK_DEADLOCK FALSE
