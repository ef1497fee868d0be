SPECIFICATION Spec
CONSTANTS
  Alarms = {a1, a2}
  Waits = {0, 3, 14}
  Periods = {0, 1, 15}
  Head = list
  Word = 16
  TickRate = 3
  Thousand = 3
  SettleTime = 1
  XferTimeout = 2
  US = 6
  Times <- MCTimes
  Clients = {"alarms", "waits", "day"}
INVARIANTS DayIsKept
PROPERTIES AlarmSpec NeverCutShort SettleEnds
