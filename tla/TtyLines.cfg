SPECIFICATION Spec
SYMMETRY Readers
CONSTANTS
  y1 = y1
  y2 = y2
  r1 = r1
  r2 = r2
  one = one
  two = two
  a = a
  lctrl = lctrl
  lalt = lalt
  newline = newline
  backspace = backspace
  d = d
  Char = {a}
  CtrlKey = {lctrl}
  AltKey = {lalt}
  Newline = newline
  Backspace = backspace
  Nul = nul
  EofKey = d
  Tty = {y1, y2}
  FirstTty = y1
  TtyKey <- MCTtyKey
  Reader = {r1, r2}
  ttyOf <- MCTtyOf
  Count = 2
  NEVENTS = 3
  BufSize = 5
  Lines = 1
  Columns = 2
  Typed <- MCTyped
  MaxKeys = 4
  KbdRoom = 2
INVARIANTS EventsCounted LinesCounted KeysAnnounced
PROPERTIES
  LineSpec
CHECK_DEADLOCK FALSE
