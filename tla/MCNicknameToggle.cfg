CONSTANTS
  NoNick = NoNick
  Manual = {NoNick, n1}
  Chars = {a, b}
  NoChar = NoChar
  Overlaps = TRUE
  MaxEdits = 0
  MaxWishes = 4
  MaxFaults = 0
SPECIFICATION Spec
INVARIANT NicknameComesBack
CHECK_DEADLOCK FALSE
