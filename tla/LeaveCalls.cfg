SPECIFICATION Spec
CONSTANTS
  Workers = {w1, w2}
  TypeList <- TwoTypes
  General = "general"
  LastDate = 4
  OffDays <- Off
  Sandwich = FALSE
  Amounts <- Quotas
  LeaveForms <- Asked
  CompForms <- CompAsked
  MaxCalls = 3
  MaxKills = 1
INVARIANTS DaysWhole SettledTogether OverdrawnIsExplained
CHECK_DEADLOCK FALSE
