SPECIFICATION PartsSpec
CONSTANTS
  Window = 1
  MaxPushes = 1
  Quota <- MCQuota
  Banks <- MCNoBanks
  Maxima <- MCNoMaximum
  Prompts <- MCNone
  Answers <- MCSourceAnswers
  ShippedAnswers <- MCNone
INVARIANT AcceptedAnswersDrawnWhole
CHECK_DEADLOCK FALSE
