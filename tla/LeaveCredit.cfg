SPECIFICATION Spec
CONSTANTS
  Workers = {w1}
  TypeList <- TwoTypes
  General = "general"
  LastDate = 4
  OffDays <- Off
  Sandwich = FALSE
  Amounts <- Quotas
  LeaveForms <- Asked
  CompForms <- CompAsked
  MaxCalls = 4
  MaxKills = 0
PROPERTY CreditedOnce
CHECK_DEADLOCK FALSE
