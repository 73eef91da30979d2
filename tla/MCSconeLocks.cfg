CONSTANTS
  a = a
  b = b
  tcp = tcp
  Threads = {a, b, tcp}
  Transport = tcp
SPECIFICATION Spec
SYMMETRY Sym
INVARIANT LockOrder
INVARIANT NoDeadlock
INVARIANT NoRace
CHECK_DEADLOCK FALSE
