SPECIFICATION Spec
CONSTANTS
  DayLength <- MCDayLength
  Shifts <- MCShifts
  NoShift = NoShift
  Minute = 2
  Day <- MCDay
  Rosters <- Usual
  Calendars <- MCCalendars
  Modes = {"first_last", "alternate"}
  Window = 1
  NightlyAt = 11
  Kinds = {"IN", "OUT", "UNSPECIFIED"}
  NoEvent = NoEvent
  NoRow = NoRow
  Instants <- MCInstants
  MaxPunches = 3
INVARIANTS EveryPunchOnce WithinPresence PunctualIsNotLate NightlyIsFinal WorkDatesAdvance
CHECK_DEADLOCK FALSE
