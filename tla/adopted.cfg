SPECIFICATION MCSpec
CONSTANTS
  p1 = p1
  p2 = p2
  a = a
  b = b
  Pks <- MCPks
  Codes <- MCCodes
  Operated = {}
  MaxChanges = 0
  MaxNotices = 0
PROPERTIES SettledIsScheduled
