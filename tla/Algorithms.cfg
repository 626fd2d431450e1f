SPECIFICATION FairPartsSpec
CONSTANTS
  Window = 4
  MaxPushes = 11
  Quota <- MCQuota
  Banks <- MCBanks
  Maxima <- MCMaxima
  Prompts <- MCPrompts
  Answers <- MCAnswers
  ShippedAnswers <- MCShippedAnswers
INVARIANTS
  WellDealt CompleteOrShort
  FeedIsLatestStory
  TextIsDrawn ShippedAnswersDrawnWhole
PROPERTIES
  DeckEnds
CHECK_DEADLOCK FALSE
