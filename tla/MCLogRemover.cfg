SPECIFICATION LogFairSpec
CONSTANTS
  Senders = {"SISender1"}
  Types = {"SI_TEST", "KOCOM", "COMMAX"}
  Terms = {0, 2}
  HoursPerDay = 2
  DaysPerMonth = 3
  MonthsPerYear = 1
  MaxHours = 6
PROPERTIES
  LinesKept
  OldLogsGo
