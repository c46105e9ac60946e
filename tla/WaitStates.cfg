SPECIFICATION FairSpec
CONSTANTS
  c1 = c1
  c2 = c2
  Wait <- ReminderWait
  Event <- ReminderEvent
  Kind <- ReminderKind
  Offer <- ReminderOffer
  Target <- ReminderTarget
  Interrupting = {"mv", "tg", "mg"}
  Recurring = {"tu", "tg"}
  Message <- ReminderMessage
  Start <- ReminderStart
  Call = {c1, c2}
  Loop = c1
  MaxToken = 2
  MaxCycle = 1
  MayFail = TRUE
  MaySuspend = TRUE
  EarlyEvents = TRUE
  NoEntry = NoEntry
  NoToken = NoToken
INVARIANTS
  Consistent
  ParkedTokenCanMove
  NoEntryLeftBehind
PROPERTIES
  DueTimersFire
  CompletedIsFinal
CHECK_DEADLOCK FALSE
