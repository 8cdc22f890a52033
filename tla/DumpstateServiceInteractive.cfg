SPECIFICATION Spec
CONSTANTS
  Callers = {c1, c2}
  Modes = {"FULL", "INTERACTIVE"}
  NoCaller = NoCaller
CHECK_DEADLOCK FALSE
INVARIANT OneReportAtATime
