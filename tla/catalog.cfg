SPECIFICATION MCSpec
CONSTANTS
  p1 = p1
  p2 = p2
  a = a
  b = b
  Pks <- MCPks
  Codes <- MCCodes
  Operated = {a}
  MaxChanges = 2
  MaxNotices = 1
INVARIANTS TypeOK
PROPERTIES ClaimKeepsHistory Converges AccountedIsScheduled
