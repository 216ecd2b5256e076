CONSTANTS
  LUMS_SS_TX_INTERVAL = 15
  Intervals = {1, 2}
  StackDigits = {7}
  Years = {17}
  RTC_RESET = 0
  NONE = NONE
SPECIFICATION Spec
INVARIANT AppliedAsSent
