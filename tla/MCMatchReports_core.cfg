SPECIFICATION FairReports
CHECK_DEADLOCK FALSE
CONSTANTS
  Contacts = {"c1"}
  Messengers <- MCMessengers
  MaxRequests = 3
  MaxChanges = 1
  ReportPerils = {}
INVARIANTS
    PublishedAsApproved
    
PROPERTIES
    ReportComes
