SPECIFICATION Spec
CONSTANT Conns = {c1}
CONSTANT Pool = {p1}
CONSTANT NumSockets = 3
CONSTANT MboxSize = 3
CONSTANT SndBuf = 1
CONSTANT MaxSize = 1
CONSTANT MaxData = 1
CONSTANT MaxResets = 1
INVARIANT OneAnswerPerCall
INVARIANT NoLostMail
INVARIANT WriterCanBeWoken
INVARIANT FaultsNeedTheEnd
CHECK_DEADLOCK FALSE
