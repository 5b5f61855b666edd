SPECIFICATION FairSpec
CONSTANTS
  CsvFound = TRUE
  CsvLines <- MCCsvLines
  TxtFiles <- MCTxtFiles
  SITypes = {"SI_TEST", "KOCOM", "COMMAX"}
  Reports <- MCReports
  Delay = 1
  TickModulus = 4
  MaxPending = 2
  MaxRaised = 3
  MaxStall = 1
CHECK_DEADLOCK FALSE
INVARIANTS
  TypeOK
  EveryEventAccounted
  ReportsInOrder
  AnswerIsSeen
PROPERTIES
  ClassReported
