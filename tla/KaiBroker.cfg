SPECIFICATION Spec
CONSTANTS
  s1 = s1
  s2 = s2
  p1 = p1
  p2 = p2
  news = news
  chat = chat
  Subscribers = {s1, s2}
  Publishers = {p1, p2}
  TopicOf <- OneOff
  HastySets <- OrHasty
  MaxFd = 4
  SocketBits <- SameBits
  None = None
INVARIANTS
  Bookkeeping
  InStep
  OnlySubscribers
  RightTopic
  LastStaysReachable
CHECK_DEADLOCK FALSE
