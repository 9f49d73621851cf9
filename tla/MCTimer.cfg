SPECIFICATION Spec
CONSTANTS
  Delays = {1, 2, 3}
  Backlog = 2
  Half = 8
  MaxRequests = 4
  Lag = 2
CHECK_DEADLOCK FALSE
PROPERTIES AlarmNotEarly AlarmComes
