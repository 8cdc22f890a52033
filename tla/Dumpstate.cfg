SPECIFICATION FairSpec
CONSTANTS
  Requests <- LocalRequests
  Faults = {"incidentcompanion", "publish", "socket", "zip_open", "screencap", "redirect", "setuid", "zip", "rename", "copy"}
  TickMs = 10000
  MaxNow = 40000
CHECK_DEADLOCK FALSE
INVARIANTS TypeOK BugreportNeedsConsent KeptForManualRetrieval NothingLeftBehind ControlProtocol
PROPERTY EveryRequestAnswered
