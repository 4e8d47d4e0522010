SPECIFICATION LocksSpec
CONSTANTS
  t1 = t1  t2 = t2  t3 = t3
  Tasks = {t1, t2, t3}
  Mixes <- MCUnsound
  None = None
PROPERTY RequestsAnswered
CHECK_DEADLOCK FALSE
