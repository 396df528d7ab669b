SPECIFICATION FairSpec
CONSTANTS
  p1 = p1
  Producers = {p1}
  MAX_CHANNEL_SIZE = 2
  MAX_DEVICE_SIZE = 2
  MaskBits = 4
  Dims <- MCDims
  Symbols <- MCSymbols
  MaxSymbols = 4
  Lines <- MCLines
  MaxLines = 4
  Texts <- MCTexts
  Cuts <- MCCuts
  Logs <- MCLogs
  Categories <- MCCategories
  Settings <- MCSettings
  HOTUPDATE_INTERVEL = 1
  Budgets <- MCBudgets
INVARIANTS
  LexerFindsEntries
  NestingFollowsIndent
  HalfWrittenIsPartial
  ConfTypeOK
  UpdateIsWhole
  LetInIsTaken
  OneChangeIsAtomic
PROPERTIES
  OffMeansOff
  Converges
