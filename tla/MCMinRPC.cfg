CONSTANTS
  HeaderSize = 12
  PageSize = 2048
  MaxPages = 5
  ErrorLength = 30
  Requests <- MCRequests
  Results <- MCResults
SPECIFICATION Spec
INVARIANTS TypeOK ArgumentsAsSent PagesOnOneList GrowsOnlyWhenNeeded ShutdownReturnsAll AnsweredOnce
CHECK_DEADLOCK FALSE
