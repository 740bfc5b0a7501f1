SPECIFICATION Spec
CONSTANTS
  Threads = {"t", "u"}
  SocketId <- OneEach
  NumaNodes = 2
  Mbufs = {m1, m2, m3, m4}
  RxBurst = 2
  RingSize = 2
  NetdevMaxBurst = 2
  MaxBursts = {1, 2}
  PollTscs = {0, 1}
  IntMax = 3
  TscBound = 2
SYMMETRY Alike
INVARIANT
  BufferedUntilPolled
