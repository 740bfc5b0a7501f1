SPECIFICATION FairSpec
CONSTANTS
  Threads = {"t", "u"}
  SocketId <- OneEach
  NumaNodes = 2
  Mbufs = {m1, m2, m3}
  RxBurst = 2
  RingSize = 2
  NetdevMaxBurst = 2
  MaxBursts <- Bursts
  PollTscs = {0, 1}
  IntMax = 3
  TscBound = 2
INVARIANTS
  TypeOK
  OneOwner
  RateLimited
PROPERTIES
  EveryRingDrains
