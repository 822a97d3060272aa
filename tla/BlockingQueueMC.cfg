SPECIFICATION Spec
CONSTANTS
  NoFd = NoFd
  NoThread = NoThread
  Producers = {p1, p2}
  Consumers = {c1, c2, c3}
  Fd = {f1, f2}
  Size = 2
INVARIANTS RingConsistent NoLostWakeup
PROPERTY ImplementsFifo
