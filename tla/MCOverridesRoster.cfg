CONSTANTS
  Everyone = "everyone"
  Self = "tarubot"
  Roles = {"other", "member", "guest", "officer", "leader"}
  People = {"someone"}
  Nobody = "someone"
  Channels <- Places
  Lobby = "lobby"
  Room = "room"
  Updates = "updates"
  Parent <- ParentOf
  None = None
  Ordered <- InOrder
  Rank <- RankOf
  BaseBits = {"send", "threads"}
  BotBits = {"view", "send", "attach", "manage"}
  Bindings <- AccessRoles
  First <- Servers
  Made <- CreatedAs
  Edits <- EditsOf
  MaxEdits = 1
  MaxFaults = 1
  Cat = "cat"
  Child = "a"
  Post = "l"
  Crew = "staff"
  Bot = "bot"
  Layout <- MCInitial
  PostsIn <- MCPosting
  Namings <- MCSettings
  Shape <- MCGuild
  Parts = {"overrides", "roster", "onboarding"}
  MaxRuns = 2
  MaxOthers = 2
  Characters = {"a", "b", "c", "d", "x"}
  Founders <- FewAndMany
  Readers = {first, second}
  Unheld = "nobody"
  PageSize = 2
  MaxPages = 3
  MaxJoins = 2
  MaxReads = 3
  MaxSlips = 2
  Budget = 5
SYMMETRY ReaderSymmetry
SPECIFICATION PartsSpec
CONSTRAINT WithinBudget
INVARIANTS NothingIsLeftOpen PrivateStaysPrivate
PROPERTIES OverridesAreKept AbsencesAreConfirmed WritesAreSafe
CHECK_DEADLOCK FALSE
