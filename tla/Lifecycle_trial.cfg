SPECIFICATION FairSpec
CONSTANTS
  Subs = {s1}
  MaxRows = 2
  MaxEvents = 2
  Requests = {"startTrial", "cancel"}
CHECK_DEADLOCK FALSE
PROPERTIES
  EndedIsRemoved
