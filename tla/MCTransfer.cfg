SPECIFICATION FairSpec
CONSTANTS
  NakLimit = 2
  RetryLimit = 3
  Timeout = 2
  Wrap = 4
  MaxPkt0 = 8
  MaxPkt = 8
  HeaderLen = 9
  DescLen = 18
  PollLen = 8
  ReportLen = 8
  LateAnswers = FALSE
  MaxReports = 3
INVARIANTS ReadIsExact ConfirmedIsDone
PROPERTIES EachReportOnce CallsReturn
