SPECIFICATION FairSpec
CONSTANTS
  a = a
  b = b
  c1 = c1
  c2 = c2
  c3 = c3
  Users = {a, b}
  Accounts = {a}
  Conns = {c1, c2}
  Main = Main
  Scripts <- TwoCleared
  MaxActive = 2
  Size = 48
  MaxPipe = 1
  Nobody = Nobody
  None = None
  NoFile = NoFile
  ReadEnd = ReadEnd
  WriteEnd = WriteEnd
  Listener = Listener
PROPERTIES
  LostPeerLeaves
CHECK_DEADLOCK FALSE
