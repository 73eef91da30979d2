SPECIFICATION MemSpec
CONSTANTS
  MemSize = 24
  Align = 2
  Hdr = 2
  MinSize = 1
  PbufHdr = 2
  Room = 2
  LenMod = 64
  TcpHlen = 2
  NumPbuf = 1
  Sizes = {1, 2, 6}
  MaxRef = 2
INVARIANT HeapSound
INVARIANT BuffersFit
INVARIANT ChainsOwned
CHECK_DEADLOCK FALSE
