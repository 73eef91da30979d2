CONSTANTS
  SeqSpace = 32
  Iss <- MCIss
  TcpWnd = 4
  TcpMss = 2
  TcpSndBuf = 4
  BufMod = 16
  SndQueueLen = 3
  MaxRtx = 1
  MaxBytes <- MCMaxBytes
  Calls <- MCCalls
  MaxNet = 2
  MaxConns = 1
  MaxMishaps = 1
SPECIFICATION TcpSpec
INVARIANT StreamIntact
INVARIANT NothingForgotten
INVARIANT EofAfterData
INVARIANT BuffersReturned
CHECK_DEADLOCK FALSE
