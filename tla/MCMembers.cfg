SPECIFICATION PartsSpec
CONSTANTS
  Members = {m1}
  Officers = {o1}
  Tabs = {t1, t2}
  Cats = {k1}
  Roles = {a, b}
  Opens = {b}
  None = None
  MaxChanges = 3
  Tries = {i, j}
  Manual = {"none", "n1"}
  NoNick = "none"
  NickEdits = 2
  NickWishes = 4
  NickFaults = 1
  Users = {"u1", "u2"}
  NoUser = "no user"
  Chars = {"c1", "c2"}
  NoChar = "no char"
  Imported = {}
  Controller <- FirstControls
  Window = 1
  Skew = 1
  OwnLimit = 1
  AllLimit = 1
  MaxClaims = 2
  LinkHorizon = 1
  Features = {"mail", "suggest"}
  ManagerOnly = {"mail"}
  Lengths = {2}
  Forever = 9
  PauseHorizon = 3
SYMMETRY Symmetric
CONSTRAINT OneOrTheOther
INVARIANTS MenuNeverBindsAccess AnswersHold
PROPERTIES PickOneHolds LinksAreProved NicknameIsTheirs PausesHold
CHECK_DEADLOCK FALSE
