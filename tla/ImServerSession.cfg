SPECIFICATION Spec
CONSTANTS
  a = a
  b = b
  c1 = c1
  c2 = c2
  c3 = c3
  Users = {a, b}
  Accounts = {a, b}
  Conns = {c1, c2}
  Main = Main
  Scripts <- TwoAlone
  MaxActive = 2
  Size = 48
  MaxPipe = 1
  Nobody = Nobody
  None = None
  NoFile = NoFile
  ReadEnd = ReadEnd
  WriteEnd = WriteEnd
  Listener = Listener
INVARIANTS
  OneSession
CHECK_DEADLOCK FALSE
